---------------------------- MODULE Spec2Model ----------------------------
(***************************************************************************)
(* Model of RepositoryBootstrap/Impl/ActivationData.py: the dependency     *)
(* walk of ActivationData.Load, its fingerprint validation, the activation *)
(* cache file read at the top of Load and written by ActivationData.Save.  *)
(*                                                                         *)
(* One behaviour is one process calling Load and Save on one filesystem.   *)
(* The filesystem (bootstrap descriptors, content signatures, cache files) *)
(* and the process environment are state; a Load is a sequence of steps:   *)
(* LoadBegin (environment override, cache attempt, setup of the locals),   *)
(* one WalkVisit per call of the nested Walk, WalkDescend/WalkReturn for   *)
(* its loop over the dependencies, and LoadFinish (ordering, fingerprint   *)
(* check, construction of the result).                                     *)
(***************************************************************************)
EXTENDS Naturals, Sequences, FiniteSets, TLC

VARIABLES
    boot,                                   \* root -> bootstrap descriptor on disk
    sig,                                    \* root -> content signature of the files under it
    files,                                  \* cache path -> file content
    env,                                    \* the process environment variables
    target,                                 \* the arguments this process passes to Load
    budget,                                 \* operations this process still performs
    pc,                                     \* position of the process
    force,                                  \* Load's force argument of the running call
    repository_root,                        \* Load's locals
    configuration,
    is_fast_environment,
    filename,
    repositories,
    tool_version_info,
    library_version_info,
    version_info_lookup,
    ignore_conflicted_repository_names,
    ignore_conflicted_library_names,
    stack,                                  \* call stack of the nested Walk
    visits,                                 \* the calls of Walk of the running Load, in order
    result,                                 \* what the last Load returned
    err,                                    \* what the last Load raised
    history,                                \* the operations completed so far
    writers                                 \* processes inside Save: object, file offset

fsVars == <<boot, sig, files, env, target>>
walkVars == <<repositories, tool_version_info, library_version_info, version_info_lookup,
              ignore_conflicted_repository_names, ignore_conflicted_library_names, stack,
              visits>>
callVars == <<force, repository_root, configuration, is_fast_environment, filename>>
vars == <<boot, sig, files, env, target, budget, pc, force, repository_root, configuration,
          is_fast_environment, filename, repositories, tool_version_info, library_version_info,
          version_info_lookup, ignore_conflicted_repository_names,
          ignore_conflicted_library_names, stack, visits, result, err, history, writers>>

---------------------------------------------------------------------------
(* Bounds of the model *)

\* Depth of the Walk recursion at which the interpreter raises RecursionError.
RecursionLimit == 7

\* Numbers of calls of Load, of calls of Save and of file mutations in one
\* behaviour.
MaxLoads == 2

MaxSaves == 1

MaxMutations == 1

\* Number of calls of Load in a behaviour that resolves one dependency graph.
GraphLoads == 1

\* Numbers of calls of Load and of Save in a behaviour in which Save may be
\* interrupted.
CacheLoads == 2

CacheSaves == 1

\* Number of calls of Load in a behaviour in which two processes save.
RaceLoads == 2

\* Number of times the caller changes the arguments it passes to Load.
MaxChanges == 1

---------------------------------------------------------------------------
(* Values *)

\* Python's None, as a configuration name, a repository and a return value.
None == "None"

Truthy(v) == v /= None /\ v /= ""

\* v or d
Or(v, d) == IF Truthy(v) THEN v ELSE d

SeqToSet(s) == {s[i] : i \in 1..Len(s)}

\* Constants.py
DE_REPO_ROOT_NAME == "DEVELOPMENT_ENVIRONMENT_REPOSITORY"
DE_REPO_CONFIGURATION_NAME == "DEVELOPMENT_ENVIRONMENT_REPOSITORY_CONFIGURATION"
DEFAULT_CONFIGURATION_NAME == "DefaultConfig"
GENERATED_DIRECTORY_NAME == "Generated"
GENERATED_ACTIVATION_FILENAME == "EnvironmentActivation.json"

\* Repository.__init__
Repository(id, name, root, config, is_mixin_repo) ==
    [Id |-> id, Name |-> name, Root |-> root, Configuration |-> config,
     IsMixinRepo |-> is_mixin_repo]

\* referencing_repo of the first call of Walk
NoRepo == Repository(None, None, None, None, FALSE)

\* The repository roots on disk.  "B2" is a second checkout of repository B.
Roots == {"A", "B", "C", "D", "B2"}

\* RepositoryBootstrap.GetRepositoryInfo: the name and the id stored in the
\* repository id file under the root.
GetRepositoryInfo(root) ==
    IF root = "B2" THEN [Name |-> "B", Id |-> "id-B"]
    ELSE [Name |-> root, Id |-> "id-" \o root]

\* Repository.Create
RepositoryCreate(repo_root, config) ==
    Repository(GetRepositoryInfo(repo_root).Id, GetRepositoryInfo(repo_root).Name,
               repo_root, config, FALSE)

\* FileSystem.Normalize: the canonical form of a path.
Normalize(path) == IF path = "A/." THEN "A" ELSE path

\* os.getenv
getenv(name) == IF name \in DOMAIN env THEN env[name] ELSE None

---------------------------------------------------------------------------
(* The bootstrap descriptors *)

\* One declared dependency of a configuration.
Dependency(root, config) == [RepositoryRoot |-> root, Configuration |-> config]

\* Configuration.VersionInfo
VersionInfo(name, version) == [Name |-> name, Version |-> version]

\* Configuration.VersionSpecs
VersionSpecs(tools, libraries) == [Tools |-> tools, Libraries |-> libraries]

\* EnvironmentBootstrap.Load: the descriptor stored under the root, read anew
\* at every call.
EnvironmentBootstrapLoad(root) == boot[root]

\* Utilities.CalculateFingerprint: one signature per path, keyed by the path.
CalculateFingerprint(paths, base_path) == [p \in SeqToSet(paths) |-> sig[p]]

---------------------------------------------------------------------------
(* Errors.  The code raises Exception with a formatted message; the model  *)
(* keeps the message's kind and the values formatted into it.              *)

Error(kind, name, id, new_value, new_by, original_value, original_by) ==
    [kind |-> kind, name |-> name, id |-> id, new_value |-> new_value, new_by |-> new_by,
     original_value |-> original_value, original_by |-> original_by]

NoError == Error("none", None, None, None, NoRepo, None, NoRepo)

SimpleError(kind, name) == Error(kind, name, None, None, NoRepo, None, NoRepo)

---------------------------------------------------------------------------
(* Walk: lines 156-367 *)

\* Position of the id in the OrderedDict repositories (0: not in it).
RepositoryIndex(repos, id) ==
    IF \E i \in 1..Len(repos) : repos[i].Id = id
    THEN CHOOSE i \in 1..Len(repos) : repos[i].Id = id
    ELSE 0

\* next((vi for vi in infos if vi.Name == name), None), as an index (0: None)
ExistingIndex(infos, name) ==
    IF \E i \in 1..Len(infos) : infos[i].Name = name
    THEN CHOOSE i \in 1..Len(infos) :
            /\ infos[i].Name = name
            /\ \A j \in 1..(i - 1) : infos[j].Name /= name
    ELSE 0

\* OnVersionMismatch
OnVersionMismatch(type_, version_info, existing_version_info, lookup, repo) ==
    Error("VersionMismatch", version_info.Name, type_, version_info.Version, repo,
          existing_version_info.Version, lookup[<<type_, existing_version_info.Name>>])

\* A loop over the Tools that treats a tool named in the library ignore list
\* as the loop over the libraries does: not the code's loop, which never
\* consults a list.
RECURSIVE MergeToolsIgnorable(_, _, _, _)
MergeToolsIgnorable(declared, i, acc, repo) ==
    IF i > Len(declared) THEN acc
    ELSE LET version_info == declared[i]
             e == ExistingIndex(acc.tools, version_info.Name)
         IN  IF e = 0
             THEN MergeToolsIgnorable(declared, i + 1,
                                      [acc EXCEPT !.tools = Append(@, version_info),
                                                  !.lookup = (<<"Tools", version_info.Name>> :> repo) @@ @],
                                      repo)
             ELSE IF /\ version_info.Version /= acc.tools[e].Version
                     /\ version_info.Name \notin SeqToSet(ignore_conflicted_library_names)
             THEN [acc EXCEPT !.err = OnVersionMismatch("Tools", version_info, acc.tools[e],
                                                        acc.lookup, repo)]
             ELSE MergeToolsIgnorable(declared, i + 1, acc, repo)

\* The loop over the Tools of the node's configuration (lines 314-327).
\* acc: [tools, lookup, err]
RECURSIVE MergeTools(_, _, _, _)
MergeTools(declared, i, acc, repo) ==
    IF i > Len(declared) THEN acc
    ELSE LET version_info == declared[i]
             e == ExistingIndex(acc.tools, version_info.Name)
         IN  IF e = 0
             THEN MergeTools(declared, i + 1,
                             [acc EXCEPT !.tools = Append(@, version_info),
                                         !.lookup = (<<"Tools", version_info.Name>> :> repo) @@ @],
                             repo)
             ELSE IF version_info.Version /= acc.tools[e].Version
             THEN [acc EXCEPT !.err = OnVersionMismatch("Tools", version_info, acc.tools[e],
                                                        acc.lookup, repo)]
             ELSE MergeTools(declared, i + 1, acc, repo)

\* library_version_info.get(library_language, [])
LibraryGet(libs, language) == IF language \in DOMAIN libs THEN libs[language] ELSE <<>>

\* An inner loop that records the version of an ignored conflict next to the
\* recorded one: not the code's loop, which records a name once.
RECURSIVE MergeLanguageAppends(_, _, _, _, _, _)
MergeLanguageAppends(language, items, i, acc, repo, ignore_names) ==
    IF i > Len(items) THEN acc
    ELSE LET version_info == items[i]
             existing == LibraryGet(acc.libs, language)
             e == ExistingIndex(existing, version_info.Name)
         IN  IF e = 0 \/ (/\ version_info.Version /= existing[e].Version
                          /\ version_info.Name \in SeqToSet(ignore_names))
             THEN MergeLanguageAppends(language, items, i + 1,
                                       [acc EXCEPT !.libs = (language :> Append(existing, version_info)) @@ @,
                                                   !.lookup = (<<language \o " Libraries", version_info.Name>>
                                                                   :> repo) @@ @],
                                       repo, ignore_names)
             ELSE IF version_info.Version /= existing[e].Version
             THEN [acc EXCEPT !.err = OnVersionMismatch(language \o " Libraries", version_info,
                                                        existing[e], acc.lookup, repo)]
             ELSE MergeLanguageAppends(language, items, i + 1, acc, repo, ignore_names)

\* An inner loop in which an ignored conflict replaces the recorded version
\* by the later one: not the code's loop, which leaves the record alone.
RECURSIVE MergeLanguageLastWins(_, _, _, _, _, _)
MergeLanguageLastWins(language, items, i, acc, repo, ignore_names) ==
    IF i > Len(items) THEN acc
    ELSE LET version_info == items[i]
             existing == LibraryGet(acc.libs, language)
             e == ExistingIndex(existing, version_info.Name)
         IN  IF e = 0
             THEN MergeLanguageLastWins(language, items, i + 1,
                                        [acc EXCEPT !.libs = (language :> Append(existing, version_info)) @@ @,
                                                    !.lookup = (<<language \o " Libraries", version_info.Name>>
                                                                    :> repo) @@ @],
                                        repo, ignore_names)
             ELSE IF /\ version_info.Version /= existing[e].Version
                     /\ version_info.Name \notin SeqToSet(ignore_names)
             THEN [acc EXCEPT !.err = OnVersionMismatch(language \o " Libraries", version_info,
                                                        existing[e], acc.lookup, repo)]
             ELSE MergeLanguageLastWins(language, items, i + 1,
                                        [acc EXCEPT !.libs = (language :> [existing EXCEPT ![e] = version_info]) @@ @],
                                        repo, ignore_names)

\* The inner loop over one language's libraries (lines 332-354).
\* acc: [libs, lookup, err]
RECURSIVE MergeLanguage(_, _, _, _, _, _)
MergeLanguage(language, items, i, acc, repo, ignore_names) ==
    IF i > Len(items) THEN acc
    ELSE LET version_info == items[i]
             existing == LibraryGet(acc.libs, language)
             e == ExistingIndex(existing, version_info.Name)
         IN  IF e = 0
             THEN MergeLanguage(language, items, i + 1,
                                [acc EXCEPT !.libs = (language :> Append(existing, version_info)) @@ @,
                                            !.lookup = (<<language \o " Libraries", version_info.Name>>
                                                            :> repo) @@ @],
                                repo, ignore_names)
             ELSE IF /\ version_info.Version /= existing[e].Version
                     /\ version_info.Name \notin SeqToSet(ignore_names)
             THEN [acc EXCEPT !.err = OnVersionMismatch(language \o " Libraries", version_info,
                                                        existing[e], acc.lookup, repo)]
             ELSE MergeLanguage(language, items, i + 1, acc, repo, ignore_names)

\* The loop over the languages of the node's configuration (lines 329-354).
\* declared is the Libraries dict in its iteration order: [Language, Items]*
RECURSIVE MergeLibraries(_, _, _, _, _)
MergeLibraries(declared, k, acc, repo, ignore_names) ==
    IF k > Len(declared) \/ acc.err.kind /= "none" THEN acc
    ELSE MergeLibraries(declared, k + 1,
                        MergeLanguage(declared[k].Language, declared[k].Items, 1, acc, repo,
                                      ignore_names),
                        repo, ignore_names)

\* The entry of repositories made at the first visit of a repository id:
\* the loaded bootstrap info with the attributes lines 160-162 add to it.
RegistryEntry(referencing_repo, repo) ==
    LET bootstrap_info == EnvironmentBootstrapLoad(repo.Root)
    IN  [Id |-> repo.Id, Repo |-> repo, ReferencingRepo |-> referencing_repo,
         priority_modifier |-> 0,
         IsConfigurable |-> bootstrap_info.IsConfigurable,
         IsMixinRepo |-> bootstrap_info.IsMixinRepo,
         Configurations |-> bootstrap_info.Configurations]

\* A registry that records the latest reference to a repository instead of
\* the first: not the code's, which sets Repo at the first visit only.
RegisterLatest(repos, referencing_repo, repo, priority_modifier) ==
    LET registered == IF RepositoryIndex(repos, repo.Id) = 0
                      THEN Append(repos, RegistryEntry(referencing_repo, repo))
                      ELSE repos
        i == RepositoryIndex(registered, repo.Id)
    IN  [registered EXCEPT ![i].priority_modifier = @ + priority_modifier,
                           ![i].Repo = repo,
                           ![i].ReferencingRepo = referencing_repo]

\* A registry that keeps the priority of the first visit: not the code's,
\* which adds the priority_modifier of every visit.
RegisterFirstVisitOnly(repos, referencing_repo, repo, priority_modifier) ==
    IF RepositoryIndex(repos, repo.Id) = 0
    THEN Append(repos, [RegistryEntry(referencing_repo, repo)
                           EXCEPT !.priority_modifier = priority_modifier])
    ELSE repos

\* A registry that counts the references to a repository, whatever their
\* depth: not the code's, which adds the priority_modifier of the call.
RegisterCounting(repos, referencing_repo, repo, priority_modifier) ==
    LET registered == IF RepositoryIndex(repos, repo.Id) = 0
                      THEN Append(repos, RegistryEntry(referencing_repo, repo))
                      ELSE repos
        i == RepositoryIndex(registered, repo.Id)
    IN  [registered EXCEPT ![i].priority_modifier = @ + 1]

\* Lines 157-167: the registry after the visit has registered the repository
\* (first visit only) and added priority_modifier to its entry.
Register(repos, referencing_repo, repo, priority_modifier) ==
    LET registered == IF RepositoryIndex(repos, repo.Id) = 0
                      THEN Append(repos, RegistryEntry(referencing_repo, repo))
                      ELSE repos
        i == RepositoryIndex(registered, repo.Id)
    IN  [registered EXCEPT ![i].priority_modifier = @ + priority_modifier]

\* A capture from every repository that declares the single configuration
\* None: not the code's, which captures from the root only.
CapturesIgnoreListsAnyRepository(repo, bootstrap_info) ==
    /\ Cardinality(DOMAIN bootstrap_info.Configurations) = 1
    /\ None \in DOMAIN bootstrap_info.Configurations

\* Lines 171-175: whether this visit captures the ignore lists.
CapturesIgnoreLists(repo, bootstrap_info) ==
    /\ repo.Root = repository_root
    /\ Cardinality(DOMAIN bootstrap_info.Configurations) = 1
    /\ None \in DOMAIN bootstrap_info.Configurations

\* The checks of a visit without the comparison of the roots (lines 219-246):
\* not the code's checks.
VisitCheckWithoutLocation(referencing_repo, repo, bootstrap_info, ignore_repository_names) ==
    IF bootstrap_info.IsConfigurable /\ ~Truthy(repo.Configuration)
    THEN SimpleError("ConfigurableWithoutConfiguration", repo.Root)
    ELSE IF ~bootstrap_info.IsConfigurable /\ Truthy(repo.Configuration)
    THEN SimpleError("NotConfigurableWithConfiguration", repo.Root)
    ELSE IF repo.Configuration \notin DOMAIN bootstrap_info.Configurations
    THEN Error("InvalidConfiguration", repo.Root, None, repo.Configuration, NoRepo,
               DOMAIN bootstrap_info.Configurations, NoRepo)
    ELSE IF /\ repo.Configuration /= bootstrap_info.Repo.Configuration
            /\ repo.Name \notin SeqToSet(ignore_repository_names)
    THEN Error("ConfigurationMismatch", repo.Name, repo.Id, repo.Configuration,
               referencing_repo, bootstrap_info.Repo.Configuration, bootstrap_info.Repo)
    ELSE NoError

\* The checks of a visit with the comparison of the roots ahead of the
\* validation of the configuration: not the code's order.
VisitCheckLocationFirst(referencing_repo, repo, bootstrap_info, ignore_repository_names) ==
    IF repo.Root /= bootstrap_info.Repo.Root
    THEN Error("LocationMismatch", repo.Name, repo.Id, repo.Root, referencing_repo,
               bootstrap_info.Repo.Root, bootstrap_info.Repo)
    ELSE IF bootstrap_info.IsConfigurable /\ ~Truthy(repo.Configuration)
    THEN SimpleError("ConfigurableWithoutConfiguration", repo.Root)
    ELSE IF ~bootstrap_info.IsConfigurable /\ Truthy(repo.Configuration)
    THEN SimpleError("NotConfigurableWithConfiguration", repo.Root)
    ELSE IF repo.Configuration \notin DOMAIN bootstrap_info.Configurations
    THEN Error("InvalidConfiguration", repo.Root, None, repo.Configuration, NoRepo,
               DOMAIN bootstrap_info.Configurations, NoRepo)
    ELSE IF /\ repo.Configuration /= bootstrap_info.Repo.Configuration
            /\ repo.Name \notin SeqToSet(ignore_repository_names)
    THEN Error("ConfigurationMismatch", repo.Name, repo.Id, repo.Configuration,
               referencing_repo, bootstrap_info.Repo.Configuration, bootstrap_info.Repo)
    ELSE NoError

\* The checks of a visit without the comparison of the configurations
\* (lines 248-275): not the code's checks.
VisitCheckWithoutConfiguration(referencing_repo, repo, bootstrap_info, ignore_repository_names) ==
    IF bootstrap_info.IsConfigurable /\ ~Truthy(repo.Configuration)
    THEN SimpleError("ConfigurableWithoutConfiguration", repo.Root)
    ELSE IF ~bootstrap_info.IsConfigurable /\ Truthy(repo.Configuration)
    THEN SimpleError("NotConfigurableWithConfiguration", repo.Root)
    ELSE IF repo.Configuration \notin DOMAIN bootstrap_info.Configurations
    THEN Error("InvalidConfiguration", repo.Root, None, repo.Configuration, NoRepo,
               DOMAIN bootstrap_info.Configurations, NoRepo)
    ELSE IF repo.Root /= bootstrap_info.Repo.Root
    THEN Error("LocationMismatch", repo.Name, repo.Id, repo.Root, referencing_repo,
               bootstrap_info.Repo.Root, bootstrap_info.Repo)
    ELSE NoError

\* Lines 182-275: the first check of the visit that fails, NoError when all pass.
VisitCheck(referencing_repo, repo, bootstrap_info, ignore_repository_names) ==
    IF bootstrap_info.IsConfigurable /\ ~Truthy(repo.Configuration)
    THEN SimpleError("ConfigurableWithoutConfiguration", repo.Root)
    ELSE IF ~bootstrap_info.IsConfigurable /\ Truthy(repo.Configuration)
    THEN SimpleError("NotConfigurableWithConfiguration", repo.Root)
    ELSE IF repo.Configuration \notin DOMAIN bootstrap_info.Configurations
    THEN Error("InvalidConfiguration", repo.Root, None, repo.Configuration, NoRepo,
               DOMAIN bootstrap_info.Configurations, NoRepo)
    ELSE IF repo.Root /= bootstrap_info.Repo.Root
    THEN Error("LocationMismatch", repo.Name, repo.Id, repo.Root, referencing_repo,
               bootstrap_info.Repo.Root, bootstrap_info.Repo)
    ELSE IF /\ repo.Configuration /= bootstrap_info.Repo.Configuration
            /\ repo.Name \notin SeqToSet(ignore_repository_names)
    THEN Error("ConfigurationMismatch", repo.Name, repo.Id, repo.Configuration,
               referencing_repo, bootstrap_info.Repo.Configuration, bootstrap_info.Repo)
    ELSE NoError

\* Lines 157-354: the body of Walk up to its loop over the dependencies, on
\* the locals of Load.  Returns the locals after it and the error it raised.
Visit(referencing_repo, repo, priority_modifier) ==
    LET repos == Register(repositories, referencing_repo, repo, priority_modifier)
        bootstrap_info == repos[RepositoryIndex(repos, repo.Id)]
        captures == CapturesIgnoreLists(repo, bootstrap_info)
        asserted == captures /\ (ignore_conflicted_repository_names /= <<>>
                                 \/ ignore_conflicted_library_names /= <<>>)
        ign_repo == IF captures
                    THEN ignore_conflicted_repository_names
                         \o bootstrap_info.Configurations[None].IgnoreConflictedRepositoryNames
                    ELSE ignore_conflicted_repository_names
        ign_lib == IF captures
                   THEN ignore_conflicted_library_names
                        \o bootstrap_info.Configurations[None].IgnoreConflictedLibraryNames
                   ELSE ignore_conflicted_library_names
        locals == [err |-> NoError, repositories |-> repos,
                   tools |-> tool_version_info, libs |-> library_version_info,
                   lookup |-> version_info_lookup,
                   ign_repo |-> ign_repo, ign_lib |-> ign_lib]
        check == VisitCheck(referencing_repo, repo, bootstrap_info, ign_repo)
    IN  IF asserted
        THEN [locals EXCEPT !.err = SimpleError("AssertionError", repo.Root),
                            !.ign_repo = ignore_conflicted_repository_names,
                            !.ign_lib = ignore_conflicted_library_names]
        ELSE IF check.kind /= "none"
        THEN [locals EXCEPT !.err = check]
        ELSE LET specs == bootstrap_info.Configurations[repo.Configuration].VersionSpecs
                 t == MergeTools(specs.Tools, 1,
                                 [tools |-> tool_version_info, lookup |-> version_info_lookup,
                                  err |-> NoError], repo)
                 l == MergeLibraries(specs.Libraries, 1,
                                     [libs |-> library_version_info, lookup |-> t.lookup,
                                      err |-> NoError], repo, ign_lib)
             IN  IF t.err.kind /= "none"
                 THEN [locals EXCEPT !.err = t.err, !.tools = t.tools, !.lookup = t.lookup]
                 ELSE [locals EXCEPT !.err = l.err, !.tools = t.tools, !.libs = l.libs,
                                     !.lookup = l.lookup]

---------------------------------------------------------------------------
(* ActivationData: construction, cache path, serialization *)

TypeError == SimpleError("TypeError", "__init__")

\* A constructor whose is_fast_environment parameter is optional and last
\* but two, so that the seven arguments of line 121 build an object: not the
\* code's constructor.
ActivationDataInitWithDefault(args) ==
    IF Len(args) = 7
    THEN [ok |-> TRUE,
          value |-> [Id |-> args[1], Root |-> args[2], IsMixinRepo |-> args[3],
                     Configuration |-> args[4], IsFastEnvironment |-> FALSE,
                     PrioritizedRepositories |-> args[5], VersionSpecs |-> args[6],
                     IgnoreConflictedLibraryNames |-> args[7]]]
    ELSE IF Len(args) /= 8
    THEN [ok |-> FALSE, err |-> TypeError]
    ELSE [ok |-> TRUE,
          value |-> [Id |-> args[1], Root |-> args[2], IsMixinRepo |-> args[3],
                     Configuration |-> args[4], IsFastEnvironment |-> args[5],
                     PrioritizedRepositories |-> args[6], VersionSpecs |-> args[7],
                     IgnoreConflictedLibraryNames |-> args[8]]]

\* ActivationData.__init__ (lines 462-480), called with positional arguments:
\* eight parameters follow self, none has a default.
ActivationDataInit(args) ==
    IF Len(args) /= 8
    THEN [ok |-> FALSE, err |-> TypeError]
    ELSE [ok |-> TRUE,
          value |-> [Id |-> args[1], Root |-> args[2], IsMixinRepo |-> args[3],
                     Configuration |-> args[4], IsFastEnvironment |-> args[5],
                     PrioritizedRepositories |-> args[6], VersionSpecs |-> args[7],
                     IgnoreConflictedLibraryNames |-> args[8]]]

\* What Load has returned when it has returned nothing.
NoResult ==
    [Id |-> None, Root |-> None, IsMixinRepo |-> FALSE, Configuration |-> None,
     IsFastEnvironment |-> FALSE, PrioritizedRepositories |-> <<>>,
     VersionSpecs |-> VersionSpecs(<<>>, <<>>), IgnoreConflictedLibraryNames |-> <<>>]

\* EnvironmentBootstrap.GetEnvironmentDir: the directory of the generated
\* artifacts of a repository, as path components.
GetEnvironmentDir(root, generated_dir) == <<root, generated_dir>>

\* ActivationData._GetActivationDir (lines 516-529)
GetActivationDir(root, config, fast) ==
    LET result_ == Or(config, DEFAULT_CONFIGURATION_NAME)
    IN  Append(GetEnvironmentDir(root, GENERATED_DIRECTORY_NAME),
               IF fast THEN result_ \o ".fast" ELSE result_)

\* ActivationData._GetFilename (lines 532-537)
GetFilename(root, config, fast) ==
    Append(GetActivationDir(root, config, fast), GENERATED_ACTIVATION_FILENAME)

\* The file a path names: the operating system resolves the root component.
Resolve(path) == [path EXCEPT ![1] = Normalize(@)]

\* os.path.isfile
isfile(path) == Resolve(path) \in DOMAIN files

\* Encoder.default on a Repository: obj.__dict__
RepositoryToJson(repo) ==
    << <<"Id", repo.Id>>, <<"Name", repo.Name>>, <<"Root", repo.Root>>,
       <<"Configuration", repo.Configuration>>, <<"IsMixinRepo", repo.IsMixinRepo>> >>

\* Encoder.default on a VersionInfo
VersionInfoToJson(vi) == << <<"Name", vi.Name>>, <<"Version", vi.Version>> >>

\* Encoder.default on a VersionSpecs
VersionSpecsToJson(vs) ==
    << <<"Tools", [i \in 1..Len(vs.Tools) |-> VersionInfoToJson(vs.Tools[i])]>>,
       <<"Libraries", [l \in DOMAIN vs.Libraries |->
                        [i \in 1..Len(vs.Libraries[l]) |-> VersionInfoToJson(vs.Libraries[l][i])]]>> >>

\* json.dump(self, f, cls=Encoder) (lines 495-499): the members of the JSON
\* object in the order of self.__dict__.
JsonDump(ad) ==
    << <<"Id", ad.Id>>, <<"Root", ad.Root>>, <<"IsMixinRepo", ad.IsMixinRepo>>,
       <<"Configuration", ad.Configuration>>,
       <<"IsFastEnvironment", ad.IsFastEnvironment>>,
       <<"PrioritizedRepositories",
         [i \in 1..Len(ad.PrioritizedRepositories) |->
            RepositoryToJson(ad.PrioritizedRepositories[i])]>>,
       <<"VersionSpecs", VersionSpecsToJson(ad.VersionSpecs)>>,
       <<"IgnoreConflictedLibraryNames", ad.IgnoreConflictedLibraryNames>> >>

\* A file: the members written so far, and whether the closing brace was.
FileContent(members, closed) == [members |-> members, closed |-> closed]

\* The dict json.load makes of a JSON object.
JsonObject(members) ==
    [k \in {members[i][1] : i \in 1..Len(members)} |->
        members[CHOOSE i \in 1..Len(members) : members[i][1] = k][2]]

\* data[k1], data[k2], ...: whether a lookup raises KeyError
HasKeys(data, keys) == keys \subseteq DOMAIN data

\* Lines 127-133
RepositoryFromJson(members) ==
    LET repo_data == JsonObject(members)
    IN  Repository(repo_data["Id"], repo_data["Name"], repo_data["Root"],
                   repo_data["Configuration"], repo_data["IsMixinRepo"])

\* Lines 105-108, 112
VersionInfoFromJson(members) ==
    LET vi_data == JsonObject(members) IN VersionInfo(vi_data["Name"], vi_data["Version"])

\* The member of the object, or the default when the object has none.
MemberOr(data, key, default) == IF key \in DOMAIN data THEN data[key] ELSE default

\* The object built of the members a file holds, the others defaulted.
FromMembers(members) ==
    LET data == JsonObject(members)
    IN  [Id |-> MemberOr(data, "Id", None), Root |-> MemberOr(data, "Root", None),
         IsMixinRepo |-> MemberOr(data, "IsMixinRepo", FALSE),
         Configuration |-> MemberOr(data, "Configuration", None),
         IsFastEnvironment |-> MemberOr(data, "IsFastEnvironment", FALSE),
         PrioritizedRepositories |-> <<>>,
         VersionSpecs |-> VersionSpecs(<<>>, <<>>),
         IgnoreConflictedLibraryNames |-> MemberOr(data, "IgnoreConflictedLibraryNames", <<>>)]

\* A try block that builds an object of a complete JSON text whatever
\* members it holds: not the code's.
LoadFromCacheDefaults(cache_filename) ==
    LET content == files[Resolve(cache_filename)]
    IN  IF ~content.closed
        THEN [ok |-> FALSE, err |-> SimpleError("JSONDecodeError", "json.load")]
        ELSE [ok |-> TRUE, value |-> FromMembers(content.members)]

\* A try block whose parser accepts a text that ends early: not the code's.
LoadFromCachePartial(cache_filename) ==
    LET content == files[Resolve(cache_filename)]
    IN  IF content.closed
        THEN [ok |-> FALSE, err |-> TypeError]
        ELSE [ok |-> TRUE, value |-> FromMembers(content.members)]

\* Lines 100-141: the try block.  [ok, value]: ok is FALSE when the block
\* raised (the bare except swallows every exception).
LoadFromCache(cache_filename) ==
    LET content == files[Resolve(cache_filename)]
    IN  IF ~content.closed
        THEN [ok |-> FALSE, err |-> SimpleError("JSONDecodeError", "json.load")]
        ELSE LET data == JsonObject(content.members)
             IN  IF ~HasKeys(data, {"VersionSpecs", "Id", "Root", "IsMixinRepo", "Configuration",
                                    "PrioritizedRepositories", "IgnoreConflictedLibraryNames"})
                 THEN [ok |-> FALSE, err |-> SimpleError("KeyError", "data")]
                 ELSE LET specs == JsonObject(data["VersionSpecs"])
                          tool_version_specs ==
                              [i \in 1..Len(specs["Tools"]) |-> VersionInfoFromJson(specs["Tools"][i])]
                          library_version_specs ==
                              [l \in DOMAIN specs["Libraries"] |->
                                 [i \in 1..Len(specs["Libraries"][l]) |->
                                    VersionInfoFromJson(specs["Libraries"][l][i])]]
                      IN  ActivationDataInit(
                              <<data["Id"], data["Root"], data["IsMixinRepo"],
                                data["Configuration"],
                                [i \in 1..Len(data["PrioritizedRepositories"]) |->
                                   RepositoryFromJson(data["PrioritizedRepositories"][i])],
                                VersionSpecs(tool_version_specs, library_version_specs),
                                data["IgnoreConflictedLibraryNames"]>>)

---------------------------------------------------------------------------
(* Ordering and fingerprint validation: lines 375-447 *)

\* An insertion that puts the element ahead of those of equal priority: the
\* order an unstable or reversed-then-sorted list would give, not the code's.
SortedInsertBefore(sorted, x) ==
    LET k == Cardinality({i \in 1..Len(sorted) :
                            sorted[i].priority_modifier > x.priority_modifier})
    IN  SubSeq(sorted, 1, k) \o <<x>> \o SubSeq(sorted, k + 1, Len(sorted))

\* list.sort(key=lambda x: x[1], reverse=True) inserts one element: the sort
\* is stable, so the element goes after those of equal priority.
SortedInsert(sorted, x) ==
    LET k == Cardinality({i \in 1..Len(sorted) :
                            sorted[i].priority_modifier >= x.priority_modifier})
    IN  SubSeq(sorted, 1, k) \o <<x>> \o SubSeq(sorted, k + 1, Len(sorted))

RECURSIVE SortByPriority(_, _, _)
SortByPriority(values, i, sorted) ==
    IF i > Len(values) THEN sorted
    ELSE SortByPriority(values, i + 1, SortedInsert(sorted, values[i]))

\* Lines 376-383
PriorityValues(repos) ==
    SortByPriority([i \in 1..Len(repos) |->
                       [id |-> repos[i].Id, priority_modifier |-> repos[i].priority_modifier]],
                   1, <<>>)

\* The keys of a dict in an iteration order.
RECURSIVE KeysOf(_)
KeysOf(keys) ==
    IF keys = {} THEN <<>>
    ELSE LET k == CHOOSE k \in keys : TRUE IN <<k>> \o KeysOf(keys \ {k})

\* A message that labels a key of both mappings "Identical" whatever its
\* values: not the code's message.
FingerprintLinesUnlabelled(stored, calculated) ==
    LET ck == KeysOf(DOMAIN calculated)
        sk == KeysOf(DOMAIN stored)
        first == [i \in 1..Len(ck) |->
                    [key |-> ck[i],
                     status |-> IF ck[i] \notin DOMAIN stored THEN "Added" ELSE "Identical"]]
        second == SelectSeq([i \in 1..Len(sk) |-> [key |-> sk[i], status |-> "Removed"]],
                            LAMBDA l : l.key \notin DOMAIN calculated)
    IN  first \o second

\* A message built from the calculated mapping alone, without the loop of
\* lines 415-417 over the stored mapping: not the code's message.
FingerprintLinesCalculatedOnly(stored, calculated) ==
    LET ck == KeysOf(DOMAIN calculated)
    IN  [i \in 1..Len(ck) |->
            [key |-> ck[i],
             status |-> IF ck[i] \notin DOMAIN stored THEN "Added"
                        ELSE IF calculated[ck[i]] = stored[ck[i]] THEN "Identical"
                        ELSE "Modified"]]

\* Lines 398-417: the lines of the stale-environment message, [key, status].
FingerprintLines(stored, calculated) ==
    LET ck == KeysOf(DOMAIN calculated)
        sk == KeysOf(DOMAIN stored)
        first == [i \in 1..Len(ck) |->
                    [key |-> ck[i],
                     status |-> IF ck[i] \notin DOMAIN stored THEN "Added"
                                ELSE IF calculated[ck[i]] = stored[ck[i]] THEN "Identical"
                                ELSE "Modified"]]
        second == SelectSeq([i \in 1..Len(sk) |-> [key |-> sk[i], status |-> "Removed"]],
                            LAMBDA l : l.key \notin DOMAIN calculated)
    IN  first \o second

\* A fingerprint over the root alone: not the code's list of paths.
FingerprintPathsRootOnly(this_configuration) == <<repository_root>>

\* Lines 390-394: the paths the fingerprint is calculated over.
FingerprintPaths(this_configuration) ==
    <<repository_root>>
    \o [i \in 1..Len(this_configuration.Dependencies) |->
          this_configuration.Dependencies[i].RepositoryRoot]

\* Lines 375-459: what Load does after the walk.  [ok, value] or [ok, err].
Finish ==
    LET priority_values == PriorityValues(repositories)
        this_bootstrap_info ==
            repositories[RepositoryIndex(repositories, priority_values[Len(priority_values)].id)]
    IN  IF configuration \notin DOMAIN this_bootstrap_info.Configurations
        THEN [ok |-> FALSE, err |-> SimpleError("KeyError", configuration)]
        ELSE
        LET this_configuration == this_bootstrap_info.Configurations[configuration]
            calculated_fingerprint ==
                CalculateFingerprint(FingerprintPaths(this_configuration), repository_root)
            lines == FingerprintLines(this_configuration.Fingerprint, calculated_fingerprint)
        IN  IF this_configuration.Fingerprint /= calculated_fingerprint
            THEN IF lines = <<>>
                 THEN [ok |-> FALSE, err |-> SimpleError("AssertionError", "lines")]
                 ELSE [ok |-> FALSE,
                       err |-> Error("StaleEnvironment", repository_root, None, lines, NoRepo,
                                     None, NoRepo)]
            ELSE ActivationDataInit(
                    <<RepositoryCreate(repository_root, configuration).Id,
                      repository_root,
                      this_bootstrap_info.IsMixinRepo,
                      configuration,
                      is_fast_environment,
                      [i \in 1..Len(priority_values) |->
                         repositories[RepositoryIndex(repositories, priority_values[i].id)].Repo],
                      VersionSpecs(tool_version_info, library_version_info),
                      ignore_conflicted_library_names>>)

---------------------------------------------------------------------------
(* The operations *)

\* One completed operation of the process.
\* stage tells where a Load ended: "cache" (the cached object is returned),
\* "setup" (before the walk), "walk" or "finish" (after the walk).
Event(op, forced, stage, loaded, error) ==
    [op |-> op, force |-> forced, stage |-> stage, result |-> loaded, err |-> error]

\* One frame of the recursion of Walk; next = 0 until the body has run,
\* then the index of the next dependency to walk.
Frame(referencing_repo, repo, priority_modifier) ==
    [referencing_repo |-> referencing_repo, repo |-> repo,
     priority_modifier |-> priority_modifier, next |-> 0]

\* The record of one call of Walk: its arguments and its depth.
Visited(frame, depth) ==
    [referencing_repo |-> frame.referencing_repo, repo |-> frame.repo,
     priority_modifier |-> frame.priority_modifier, depth |-> depth]

\* A loop that stops after the first dependency: not the code's loop.
FrameDependenciesFirstOnly(frame) ==
    LET dependencies == repositories[RepositoryIndex(repositories, frame.repo.Id)]
                            .Configurations[frame.repo.Configuration].Dependencies
    IN  SubSeq(dependencies, 1, IF Len(dependencies) > 1 THEN 1 ELSE Len(dependencies))

\* The dependencies the frame's loop iterates over (lines 357-359).
FrameDependencies(frame) ==
    repositories[RepositoryIndex(repositories, frame.repo.Id)]
        .Configurations[frame.repo.Configuration].Dependencies

\* A failure that hands the caller what the walk has gathered so far: not
\* the code's, where the exception leaves Load.
RaisePartial(error, forced, stage) ==
    /\ pc' = "failed"
    /\ err' = error
    /\ result' = [NoResult EXCEPT
                     !.PrioritizedRepositories =
                         [i \in 1..Len(repositories) |-> repositories[i].Repo],
                     !.VersionSpecs = VersionSpecs(tool_version_info, library_version_info)]
    /\ history' = Append(history, Event("Load", forced, stage, NoResult, error))

\* Load raises: the exception leaves Load, nothing is returned.
Raise(error, forced, stage) ==
    /\ pc' = "failed"
    /\ err' = error
    /\ result' = NoResult
    /\ history' = Append(history, Event("Load", forced, stage, NoResult, error))

\* Load returns.
Return(value, forced, stage) ==
    /\ pc' = "done"
    /\ err' = NoError
    /\ result' = value
    /\ history' = Append(history, Event("Load", forced, stage, value, NoError))

\* An override by the environment that applies to forced calls as well: not
\* the code's.
LoadRootAlways(root, forced) ==
    IF Truthy(getenv(DE_REPO_ROOT_NAME)) THEN getenv(DE_REPO_ROOT_NAME) ELSE root

\* Lines 92-94: the repository root and the configuration Load works on.
LoadRoot(root, forced) ==
    IF ~forced /\ Truthy(getenv(DE_REPO_ROOT_NAME)) THEN getenv(DE_REPO_ROOT_NAME) ELSE root

LoadConfiguration(config, forced) ==
    IF ~forced /\ Truthy(getenv(DE_REPO_ROOT_NAME))
    THEN getenv(DE_REPO_CONFIGURATION_NAME)
    ELSE config

\* A Load whose registry, version lists and ignore lists outlive the call:
\* not the code's, where they are locals made anew by lines 147-153.
LoadBeginKeepsLocals(forced) ==
    /\ pc \in {"idle", "done", "failed"}
    /\ budget.Load > 0
    /\ budget' = [budget EXCEPT !.Load = @ - 1]
    /\ LET root == LoadRoot(target.root, forced)
           config == LoadConfiguration(target.configuration, forced)
       IN  /\ force' = forced
           /\ is_fast_environment' = target.fast
           /\ filename' = GetFilename(root, config, target.fast)
           /\ repository_root' = Normalize(root)
           /\ configuration' = config
           /\ visits' = <<>>
           /\ UNCHANGED <<repositories, tool_version_info, library_version_info,
                          version_info_lookup, ignore_conflicted_repository_names,
                          ignore_conflicted_library_names>>
           /\ IF Normalize(root) \notin Roots
              THEN /\ Raise(SimpleError("AssertionError", "isdir"), forced, "setup")
                   /\ stack' = <<>>
              ELSE /\ stack' = <<Frame(NoRepo, RepositoryCreate(Normalize(root), config), 1)>>
                   /\ pc' = "walk"
                   /\ UNCHANGED <<result, err, history>>
    /\ UNCHANGED <<fsVars, writers>>

\* Lines 92-153 and 371-373: ActivationData.Load up to the first call of Walk.
LoadBegin(forced) ==
    /\ pc \in {"idle", "done", "failed"}
    /\ budget.Load > 0
    /\ budget' = [budget EXCEPT !.Load = @ - 1]
    /\ LET root == LoadRoot(target.root, forced)
           config == LoadConfiguration(target.configuration, forced)
           cache_filename == GetFilename(root, config, target.fast)
           cached == IF ~forced /\ isfile(cache_filename)
                     THEN LoadFromCache(cache_filename)
                     ELSE [ok |-> FALSE, err |-> NoError]
       IN  /\ force' = forced
           /\ is_fast_environment' = target.fast
           /\ filename' = cache_filename
           /\ IF cached.ok
              THEN /\ Return(cached.value, forced, "cache")
                   /\ UNCHANGED <<repository_root, configuration, walkVars>>
              ELSE /\ repository_root' = Normalize(root)
                   /\ configuration' = config
                   /\ repositories' = <<>>
                   /\ tool_version_info' = <<>>
                   /\ library_version_info' = <<>>
                   /\ version_info_lookup' = <<>>
                   /\ ignore_conflicted_repository_names' = <<>>
                   /\ ignore_conflicted_library_names' = <<>>
                   /\ visits' = <<>>
                   /\ IF Normalize(root) \notin Roots
                      THEN /\ Raise(SimpleError("AssertionError", "isdir"), forced, "setup")
                           /\ stack' = <<>>
                      ELSE /\ stack' = <<Frame(NoRepo,
                                               RepositoryCreate(Normalize(root), config), 1)>>
                           /\ pc' = "walk"
                           /\ UNCHANGED <<result, err, history>>
    /\ UNCHANGED <<fsVars, writers>>

\* Lines 157-354: one call of Walk runs its body.
WalkVisit ==
    /\ pc = "walk"
    /\ stack /= <<>>
    /\ stack[Len(stack)].next = 0
    /\ LET frame == stack[Len(stack)]
           out == Visit(frame.referencing_repo, frame.repo, frame.priority_modifier)
       IN  /\ repositories' = out.repositories
           /\ tool_version_info' = out.tools
           /\ library_version_info' = out.libs
           /\ version_info_lookup' = out.lookup
           /\ ignore_conflicted_repository_names' = out.ign_repo
           /\ ignore_conflicted_library_names' = out.ign_lib
           /\ visits' = Append(visits, Visited(frame, Len(stack)))
           /\ IF out.err.kind /= "none"
              THEN /\ Raise(out.err, force, "walk")
                   /\ UNCHANGED stack
              ELSE /\ stack' = [stack EXCEPT ![Len(stack)].next = 1]
                   /\ UNCHANGED <<pc, result, err, history>>
    /\ UNCHANGED <<fsVars, budget, callVars, writers>>

\* Lines 357-367: the loop over the dependencies calls Walk for the next one.
\* The interpreter refuses the call at its recursion limit.
WalkDescend ==
    /\ pc = "walk"
    /\ stack /= <<>>
    /\ LET frame == stack[Len(stack)]
       IN  /\ frame.next >= 1
           /\ frame.next <= Len(FrameDependencies(frame))
           /\ LET dependency_info == FrameDependencies(frame)[frame.next]
              IN  IF Len(stack) >= RecursionLimit
                  THEN /\ Raise(SimpleError("RecursionError", frame.repo.Root), force, "walk")
                       /\ UNCHANGED stack
                  ELSE /\ stack' = Append([stack EXCEPT ![Len(stack)].next = @ + 1],
                                          Frame(frame.repo,
                                                RepositoryCreate(dependency_info.RepositoryRoot,
                                                                 dependency_info.Configuration),
                                                frame.priority_modifier + 1))
                       /\ UNCHANGED <<pc, result, err, history>>
    /\ UNCHANGED <<fsVars, budget, callVars, writers, repositories, tool_version_info,
                   library_version_info, version_info_lookup,
                   ignore_conflicted_repository_names, ignore_conflicted_library_names,
                   visits>>

\* The loop over the dependencies is over: the call of Walk returns.
WalkReturn ==
    /\ pc = "walk"
    /\ stack /= <<>>
    /\ LET frame == stack[Len(stack)]
       IN  /\ frame.next >= 1
           /\ frame.next > Len(FrameDependencies(frame))
    /\ stack' = SubSeq(stack, 1, Len(stack) - 1)
    /\ pc' = IF Len(stack) = 1 THEN "finish" ELSE "walk"
    /\ UNCHANGED <<fsVars, budget, callVars, writers, repositories, tool_version_info,
                   library_version_info, version_info_lookup,
                   ignore_conflicted_repository_names, ignore_conflicted_library_names,
                   visits, result, err, history>>

\* Lines 375-459: ordering, fingerprint validation, the returned object.
LoadFinish ==
    /\ pc = "finish"
    /\ IF Finish.ok THEN Return(Finish.value, force, "finish") ELSE Raise(Finish.err, force, "finish")
    /\ UNCHANGED <<fsVars, budget, callVars, writers, walkVars>>

\* A file name that leaves the fast flag out: not the code's.
SaveFilenameFull(self) == GetFilename(self.Root, self.Configuration, FALSE)

\* Line 485: the file Save opens.
SaveFilename(self) == GetFilename(self.Root, self.Configuration, self.IsFastEnvironment)

\* ActivationData.Save (lines 483-499) on the object the last Load returned.
Save ==
    /\ pc = "done"
    /\ budget.Save > 0
    /\ budget' = [budget EXCEPT !.Save = @ - 1]
    /\ files' = (Resolve(SaveFilename(result)) :> FileContent(JsonDump(result), TRUE)) @@ files
    /\ history' = Append(history, Event("Save", FALSE, "save", result, NoError))
    /\ UNCHANGED <<boot, sig, env, target, pc, callVars, writers, walkVars, result, err>>

\* A file under a repository root changes: its content signature changes.
MutateFile(root) ==
    /\ pc \in {"done", "failed"}
    /\ budget.Mutate > 0
    /\ budget' = [budget EXCEPT !.Mutate = @ - 1]
    /\ sig[root] = 1
    /\ sig' = [sig EXCEPT ![root] = 2]
    /\ history' = Append(history, Event("Mutate", FALSE, "mutate", NoResult,
                                        SimpleError("none", root)))
    /\ UNCHANGED <<boot, files, env, target, pc, callVars, writers, walkVars, result, err>>

\* The roots under which files change in the model.
MutableRoots == {"C", "D"}

\* ActivationData.Save step by step.  Line 494: open(filename, "w") creates
\* the file or truncates it.
SaveOpen ==
    /\ pc = "done"
    /\ budget.Save > 0
    /\ budget' = [budget EXCEPT !.Save = @ - 1]
    /\ files' = (Resolve(SaveFilename(result)) :> FileContent(<<>>, FALSE)) @@ files
    /\ pc' = "save"
    /\ UNCHANGED <<boot, sig, env, target, callVars, writers, walkVars, result, err, history>>

\* Lines 495-499: json.dump writes the next member of the object.
SaveWrite ==
    /\ pc = "save"
    /\ LET path == Resolve(SaveFilename(result))
           written == files[path].members
       IN  /\ Len(written) < Len(JsonDump(result))
           /\ files' = [files EXCEPT ![path] =
                           FileContent(Append(written, JsonDump(result)[Len(written) + 1]),
                                       FALSE)]
    /\ UNCHANGED <<boot, sig, env, target, budget, pc, callVars, writers, walkVars, result, err,
                   history>>

\* Lines 495-499: json.dump writes the closing brace, the with block closes
\* the file and Save returns.
SaveClose ==
    /\ pc = "save"
    /\ LET path == Resolve(SaveFilename(result))
       IN  /\ files[path].members = JsonDump(result)
           /\ files' = [files EXCEPT ![path] = FileContent(JsonDump(result), TRUE)]
    /\ pc' = "done"
    /\ history' = Append(history, Event("Save", FALSE, "save", result, NoError))
    /\ UNCHANGED <<boot, sig, env, target, budget, callVars, writers, walkVars, result, err>>

\* The process dies inside Save: the file keeps what was written, and a new
\* process starts with nothing loaded.
Crash ==
    /\ pc = "save"
    /\ pc' = "idle"
    /\ result' = NoResult
    /\ history' = Append(history, Event("Crash", FALSE, "save", result, NoError))
    /\ UNCHANGED <<fsVars, budget, callVars, writers, walkVars, err>>

\* The caller goes on with other arguments for its next calls.
ChangeArguments(args) ==
    /\ pc \in {"done", "failed"}
    /\ args /= target
    /\ Cardinality({k \in 1..Len(history) : history[k].op = "Arguments"}) < MaxChanges
    /\ target' = args
    /\ history' = Append(history, Event("Arguments", FALSE, "arguments", NoResult, NoError))
    /\ UNCHANGED <<boot, sig, files, env, budget, pc, callVars, writers, walkVars, result, err>>

\* Two processes that call Save.  Each has resolved the object it saves as
\* the calls of Load above do; each writes through a file object of its own,
\* at the offset of that file object.
Processes == {"p1", "p2"}

NoWriter == [pc |-> "idle", self |-> NoResult, offset |-> 0]

\* The bytes a write past the end of a file leaves in between.
Hole == <<None, None>>

\* The file after a write of one member at the position.
WriteAt(content, position, member) ==
    IF position <= Len(content.members)
    THEN FileContent([content.members EXCEPT ![position] = member], content.closed)
    ELSE FileContent(content.members
                        \o [i \in 1..(position - Len(content.members) - 1) |-> Hole]
                        \o <<member>>,
                     FALSE)

\* The file after the write of the closing brace behind the last member.
WriteBrace(content, count) ==
    FileContent(content.members \o [i \in 1..(count - Len(content.members)) |-> Hole], TRUE)

\* Line 494 in process p: open(filename, "w") creates or truncates the file.
WriterOpen(p) ==
    /\ pc = "done"
    /\ writers[p].pc = "idle"
    /\ writers' = [writers EXCEPT ![p] = [pc |-> "save", self |-> result, offset |-> 0]]
    /\ files' = (Resolve(SaveFilename(result)) :> FileContent(<<>>, FALSE)) @@ files
    /\ UNCHANGED <<boot, sig, env, target, budget, pc, callVars, walkVars, result, err,
                   history>>

\* Lines 495-499 in process p: json.dump writes the next member.
WriterWrite(p) ==
    /\ writers[p].pc = "save"
    /\ writers[p].offset < Len(JsonDump(writers[p].self))
    /\ LET path == Resolve(SaveFilename(writers[p].self))
           position == writers[p].offset + 1
       IN  files' = [files EXCEPT ![path] =
                        WriteAt(@, position, JsonDump(writers[p].self)[position])]
    /\ writers' = [writers EXCEPT ![p].offset = @ + 1]
    /\ UNCHANGED <<boot, sig, env, target, budget, pc, callVars, walkVars, result, err,
                   history>>

\* Lines 495-499 in process p: json.dump writes the closing brace, the file
\* is closed and Save returns.
WriterClose(p) ==
    /\ writers[p].pc = "save"
    /\ writers[p].offset = Len(JsonDump(writers[p].self))
    /\ LET path == Resolve(SaveFilename(writers[p].self))
       IN  files' = [files EXCEPT ![path] = WriteBrace(@, writers[p].offset)]
    /\ writers' = [writers EXCEPT ![p].pc = "closed"]
    /\ history' = Append(history, Event("Save", FALSE, "save", writers[p].self, NoError))
    /\ UNCHANGED <<boot, sig, env, target, budget, pc, callVars, walkVars, result, err>>

Next ==
    \/ \E forced \in BOOLEAN : LoadBegin(forced)
    \/ WalkVisit
    \/ WalkDescend
    \/ WalkReturn
    \/ LoadFinish
    \/ Save
    \/ \E root \in MutableRoots : MutateFile(root)

---------------------------------------------------------------------------
(* The filesystems of the model.  Repository B (and its second checkout    *)
(* B2) is configurable with c1 and c2, C and D are not configurable, A is  *)
(* not configurable or is configurable with the one configuration c1.  A   *)
(* descriptor key is a <<root, configuration>> pair; A's one configuration *)
(* has the key <<"A", None>> whatever its name.                            *)

Keys == {<<"A", None>>, <<"B", "c1">>, <<"B", "c2">>, <<"C", None>>, <<"D", None>>}

\* The configuration names A may declare.
Unconfigured == {None}

ConfigurationsOf(root, a_configurations) ==
    IF root \in {"B", "B2"} THEN {"c1", "c2"}
    ELSE IF root = "A" THEN a_configurations
    ELSE {None}

KeyOf(root, config) ==
    IF root = "A" THEN <<"A", None>> ELSE <<IF root = "B2" THEN "B" ELSE root, config>>

\* The fingerprint the setup of a configuration stored: the signatures, at
\* setup, of the root and of its direct dependencies.  A variant tells what
\* happened since: nothing ("fresh"), a file of the root changed
\* ("modified"), a dependency was removed ("removed") or added ("added").
SetupFingerprint(root, dependencies, variant) ==
    LET roots == {root} \cup {dependencies[i].RepositoryRoot : i \in 1..Len(dependencies)}
        fresh == [r \in roots |-> 1]
    IN  CASE variant = "fresh" -> fresh
          [] variant = "modified" -> [fresh EXCEPT ![root] = 0]
          [] variant = "removed" -> ("E" :> 1) @@ fresh
          [] variant = "added" -> [r \in {root} |-> 1]

\* One configuration of a bootstrap descriptor.
ConfigurationRecord(root, dependencies, tools, libraries, ignore_repos, ignore_libs, variant) ==
    [Dependencies |-> dependencies,
     VersionSpecs |-> VersionSpecs(tools, libraries),
     Fingerprint |-> SetupFingerprint(root, dependencies, variant),
     IgnoreConflictedRepositoryNames |-> ignore_repos,
     IgnoreConflictedLibraryNames |-> ignore_libs]

\* The descriptors of a filesystem: deps, tools and libs map each key to its
\* declarations, ign is the pair of ignore lists of A, mixin tells whether A
\* is a mixin repository, a_configurations are the configuration names of A.
Descriptors(deps, tools, libs, ign, variant, mixin, a_configurations) ==
    [root \in Roots |->
        [IsConfigurable |-> None \notin ConfigurationsOf(root, a_configurations),
         IsMixinRepo |-> (root = "A" /\ mixin),
         Configurations |->
            [c \in ConfigurationsOf(root, a_configurations) |->
                ConfigurationRecord(root, deps[KeyOf(root, c)], tools[KeyOf(root, c)],
                                    libs[KeyOf(root, c)],
                                    IF root = "A" THEN ign[1] ELSE <<>>,
                                    IF root = "A" THEN ign[2] ELSE <<>>,
                                    variant)]]]

Target(root, config, fast) == [root |-> root, configuration |-> config, fast |-> fast]

NoEnvironment == <<>>

Environment(root, config) ==
    (DE_REPO_ROOT_NAME :> root) @@ (DE_REPO_CONFIGURATION_NAME :> config)

NoDeclarations == [k \in Keys |-> <<>>]

\* The state of a process that has called nothing yet, on a filesystem that
\* holds the cache files.
StartOn(cache, descriptors, environment, args, loads, saves, mutations) ==
    /\ boot = descriptors
    /\ sig = [r \in Roots |-> 1]
    /\ files = cache
    /\ env = environment
    /\ target = args
    /\ budget = [Load |-> loads, Save |-> saves, Mutate |-> mutations]
    /\ pc = "idle"
    /\ force = FALSE
    /\ repository_root = None
    /\ configuration = None
    /\ is_fast_environment = FALSE
    /\ filename = None
    /\ repositories = <<>>
    /\ tool_version_info = <<>>
    /\ library_version_info = <<>>
    /\ version_info_lookup = <<>>
    /\ ignore_conflicted_repository_names = <<>>
    /\ ignore_conflicted_library_names = <<>>
    /\ stack = <<>>
    /\ visits = <<>>
    /\ result = NoResult
    /\ err = NoError
    /\ history = <<>>
    /\ writers = [p \in Processes |-> NoWriter]

\* The same on a filesystem without cache files.
Start(descriptors, environment, args, loads, saves, mutations) ==
    StartOn(<<>>, descriptors, environment, args, loads, saves, mutations)

\* Activation of A in a shell that may already be activated: a few
\* dependency graphs, every fingerprint variant, Load and Save in sequence.
CacheDependencies ==
    {[NoDeclarations EXCEPT ![<<"A", None>>] = a, ![<<"C", None>>] = c] :
        a \in {<<>>, <<Dependency("C", None)>>,
               <<Dependency("B", "c1"), Dependency("C", None)>>},
        c \in {<<>>, <<Dependency("D", None)>>}}

CacheTools ==
    [NoDeclarations EXCEPT ![<<"A", None>>] = <<VersionInfo("T1", "1")>>,
                           ![<<"C", None>>] = <<VersionInfo("T1", "1"), VersionInfo("T2", "1")>>]

CacheLibraries ==
    [NoDeclarations EXCEPT
        ![<<"A", None>>] = <<[Language |-> "Python", Items |-> <<VersionInfo("X", "1")>>]>>,
        ![<<"C", None>>] = <<[Language |-> "Python", Items |-> <<VersionInfo("X", "2")>>],
                             [Language |-> "Cpp", Items |-> <<VersionInfo("X", "2")>>]>>]

Init ==
    \E deps \in CacheDependencies,
       variant \in {"fresh", "modified", "removed", "added"},
       environment \in {NoEnvironment, Environment("A", None), Environment("C", None),
                        Environment("B", None)},
       root \in {"A", "A/."},
       fast \in BOOLEAN :
        Start(Descriptors(deps, CacheTools, CacheLibraries, <<<<>>, <<"X">>>>, variant, TRUE,
                          Unconfigured),
              environment, Target(root, None, fast), MaxLoads, MaxSaves, MaxMutations)

Spec == Init /\ [][Next]_vars

---------------------------------------------------------------------------
(* One Load of A or of B on each of a family of dependency graphs: chains, *)
(* diamonds, cycles, references to B with two configurations, with no or   *)
(* an undeclared configuration, and to its second checkout.                *)

NextLoad ==
    \/ \E forced \in BOOLEAN : LoadBegin(forced)
    \/ WalkVisit
    \/ WalkDescend
    \/ WalkReturn
    \/ LoadFinish

GraphDependencies ==
    {[k \in Keys |->
        CASE k = <<"A", None>> -> a
          [] k = <<"B", "c1">> -> b1
          [] k = <<"B", "c2">> -> b2
          [] k = <<"C", None>> -> c
          [] k = <<"D", None>> -> <<>>] :
        a \in {<<>>, <<Dependency("B", "c1")>>, <<Dependency("C", None)>>,
               <<Dependency("D", None)>>,
               <<Dependency("B", "c1"), Dependency("C", None)>>,
               <<Dependency("C", None), Dependency("B", "c1")>>,
               <<Dependency("B", "c1"), Dependency("D", None)>>,
               <<Dependency("C", None), Dependency("D", None)>>,
               <<Dependency("B", "c1"), Dependency("C", None), Dependency("D", None)>>},
        b1 \in {<<>>, <<Dependency("D", None)>>, <<Dependency("A", None)>>,
                <<Dependency("C", None)>>, <<Dependency("A", "c1")>>},
        b2 \in {<<>>, <<Dependency("D", None)>>},
        c \in {<<>>, <<Dependency("D", None)>>, <<Dependency("B", "c1")>>,
               <<Dependency("B", "c2")>>, <<Dependency("B2", "c1")>>,
               <<Dependency("B", None)>>, <<Dependency("B", "c3")>>,
               <<Dependency("B2", None)>>, <<Dependency("B2", "c2")>>}}

GraphTools ==
    [NoDeclarations EXCEPT ![<<"B", "c1">>] = <<VersionInfo("T1", "1")>>,
                           ![<<"B", "c2">>] = <<VersionInfo("T2", "1")>>]

Library(language, items) == [Language |-> language, Items |-> items]

\* C and D declare two versions of the Python library X.
GraphLibraries ==
    [NoDeclarations EXCEPT
        ![<<"C", None>>] = <<Library("Python", <<VersionInfo("X", "1")>>)>>,
        ![<<"D", None>>] = <<Library("Python", <<VersionInfo("X", "2")>>)>>]

\* What A declares to be ignored, with the libraries of the filesystem: no
\* list and no library, or the repository B and the library X.
GraphIgnoreLists ==
    {[repos |-> <<>>, libs |-> <<>>, libraries |-> NoDeclarations],
     [repos |-> <<"B">>, libs |-> <<"X">>, libraries |-> GraphLibraries]}

InitGraph ==
    \E deps \in GraphDependencies,
       ign \in GraphIgnoreLists,
       a_configurations \in {Unconfigured, {"c1"}},
       args \in {Target("A", None, FALSE), Target("A", "c1", FALSE),
                 Target("B", "c1", FALSE), Target("B", None, FALSE)} :
        Start(Descriptors(deps, GraphTools, ign.libraries, <<ign.repos, ign.libs>>, "fresh",
                          TRUE, a_configurations),
              NoEnvironment, args, GraphLoads, 0, 0)

SpecGraph == InitGraph /\ [][NextLoad]_vars

---------------------------------------------------------------------------
(* One Load of A on A -> [B@c1, C], C -> [] or [B@c2], with every          *)
(* combination of a family of tool and library declarations and of ignore  *)
(* lists.                                                                  *)

VersionDependencies ==
    {[NoDeclarations EXCEPT ![<<"A", None>>] = <<Dependency("B", "c1"), Dependency("C", None)>>,
                            ![<<"C", None>>] = c] :
        c \in {<<>>, <<Dependency("B", "c2")>>}}

VersionTools ==
    {[k \in Keys |->
        CASE k = <<"A", None>> -> a
          [] k = <<"B", "c1">> -> b1
          [] k = <<"B", "c2">> -> <<VersionInfo("T1", "2")>>
          [] k = <<"C", None>> -> c
          [] k = <<"D", None>> -> <<>>] :
        a \in {<<>>, <<VersionInfo("T1", "1")>>},
        b1 \in {<<>>, <<VersionInfo("T1", "1")>>, <<VersionInfo("T1", "2")>>},
        c \in {<<>>, <<VersionInfo("T1", "1")>>, <<VersionInfo("T2", "1"), VersionInfo("T1", "2")>>,
               <<VersionInfo("T2", "1"), VersionInfo("T2", "2")>>,
               <<VersionInfo("T2", "1"), VersionInfo("T2", "1")>>}}

VersionLibraries ==
    {[k \in Keys |->
        CASE k = <<"A", None>> -> a
          [] k = <<"B", "c1">> -> b1
          [] k = <<"B", "c2">> -> <<Library("Python", <<VersionInfo("Y", "2")>>)>>
          [] k = <<"C", None>> -> c
          [] k = <<"D", None>> -> <<>>] :
        a \in {<<>>, <<Library("Python", <<VersionInfo("X", "1")>>)>>},
        b1 \in {<<>>, <<Library("Python", <<VersionInfo("X", "1")>>)>>,
                <<Library("Python", <<VersionInfo("X", "2"), VersionInfo("Y", "1")>>)>>,
                <<Library("Cpp", <<VersionInfo("X", "2")>>)>>},
        c \in {<<>>, <<Library("Python", <<VersionInfo("X", "2")>>)>>,
               <<Library("Cpp", <<VersionInfo("X", "1")>>),
                 Library("Python", <<VersionInfo("X", "1")>>)>>,
               <<Library("Python", <<VersionInfo("Y", "1"), VersionInfo("Y", "2")>>)>>}}

VersionIgnoreLists ==
    {<<<<>>, <<>>>>, <<<<"B">>, <<"X">>>>, <<<<"B", "T1">>, <<"T1", "T2", "Y">>>>}

InitVersions ==
    \E deps \in VersionDependencies,
       tools \in VersionTools,
       libs \in VersionLibraries,
       ign \in VersionIgnoreLists :
        Start(Descriptors(deps, tools, libs, ign, "fresh", FALSE, Unconfigured),
              NoEnvironment, Target("A", None, FALSE), GraphLoads, 0, 0)

SpecVersions == InitVersions /\ [][NextLoad]_vars

---------------------------------------------------------------------------
(* Activations of A, configurable with c1 and c1.fast, full and fast, in a *)
(* shell that may be activated, over cache files left by earlier runs; the *)
(* process may die inside Save.                                            *)

FastConfigurations == {"c1", "c1.fast"}

Targets == {Target("A", "c1", FALSE), Target("A", "c1", TRUE), Target("A", "c1.fast", FALSE)}

\* An object an earlier run saved.
SavedEarlier ==
    [NoResult EXCEPT !.Id = "id-A", !.Root = "A", !.Configuration = "c0"]

\* What earlier runs have left: an object without most of its members at
\* the path of the fast activation of c1, a complete object at the path of
\* its full activation, nothing at the other paths.
LeftCache ==
    (Resolve(GetFilename("A", "c1", TRUE))
        :> FileContent(<< <<"Id", "id-A">>, <<"Root", "A">> >>, TRUE))
    @@ (Resolve(GetFilename("A", "c1", FALSE)) :> FileContent(JsonDump(SavedEarlier), TRUE))

Environments ==
    {NoEnvironment, Environment("A", "c1.fast"), (DE_REPO_ROOT_NAME :> "C"),
     Environment("", "c1")}

CacheStepDependencies ==
    [NoDeclarations EXCEPT ![<<"A", None>>] = <<Dependency("C", None)>>]

CacheStepLibraries ==
    [NoDeclarations EXCEPT
        ![<<"A", None>>] = <<[Language |-> "Python", Items |-> <<VersionInfo("X", "1")>>]>>,
        ![<<"C", None>>] = <<[Language |-> "Cpp", Items |-> <<VersionInfo("X", "2")>>]>>]

NextCache ==
    \/ \E forced \in BOOLEAN : LoadBegin(forced)
    \/ WalkVisit
    \/ WalkDescend
    \/ WalkReturn
    \/ LoadFinish
    \/ SaveOpen
    \/ SaveWrite
    \/ SaveClose
    \/ Crash
    \/ \E args \in Targets : ChangeArguments(args)

InitCache ==
    \E environment \in Environments :
        StartOn(LeftCache,
                Descriptors(CacheStepDependencies, CacheTools, CacheStepLibraries,
                            <<<<>>, <<>>>>, "fresh", TRUE, FastConfigurations),
                environment, Target("A", "c1", TRUE), CacheLoads, CacheSaves, 0)

SpecCache == InitCache /\ [][NextCache]_vars

---------------------------------------------------------------------------
(* Two processes activate A and save without a lock. *)

NextRace ==
    \/ \E forced \in BOOLEAN : LoadBegin(forced)
    \/ WalkVisit
    \/ WalkDescend
    \/ WalkReturn
    \/ LoadFinish
    \/ \E args \in Targets : ChangeArguments(args)
    \/ \E p \in Processes : WriterOpen(p)
    \/ \E p \in Processes : WriterWrite(p)
    \/ \E p \in Processes : WriterClose(p)

InitRace ==
    Start(Descriptors(CacheStepDependencies, CacheTools, CacheStepLibraries,
                      <<<<>>, <<>>>>, "fresh", TRUE, FastConfigurations),
          NoEnvironment, Target("A", "c1", TRUE), RaceLoads, 0, 0)

SpecRace == InitRace /\ [][NextRace]_vars

---------------------------------------------------------------------------
(* Properties.  The dependency graph of a filesystem is read off the       *)
(* descriptors: its nodes are <<root, configuration>> references.          *)

Last(s) == s[Len(s)]

\* The call of Load has ended (returned or raised) and nothing was done since.
LoadEnded == pc \in {"done", "failed"} /\ history /= <<>> /\ Last(history).op = "Load"

Declared(node) ==
    node[1] \in Roots /\ node[2] \in DOMAIN boot[node[1]].Configurations

Successors(node) ==
    IF Declared(node)
    THEN LET dependencies == boot[node[1]].Configurations[node[2]].Dependencies
         IN  {<<dependencies[i].RepositoryRoot, dependencies[i].Configuration>> :
                i \in 1..Len(dependencies)}
    ELSE {}

RECURSIVE Closure(_)
Closure(nodes) ==
    LET more == nodes \cup UNION {Successors(n) : n \in nodes}
    IN  IF more = nodes THEN nodes ELSE Closure(more)

\* The references the walk of the running Load can reach.
RootNode == <<repository_root, configuration>>

ReachableNodes == Closure({RootNode})

CycleFromRoot == \E n \in ReachableNodes : n \in Closure(Successors(n))

\* Every reference names a declared configuration, and the references to one
\* repository id agree on the root and on the configuration.
ConsistentReferences ==
    \A n \in ReachableNodes :
        /\ Declared(n)
        /\ \A m \in ReachableNodes :
              GetRepositoryInfo(m[1]).Id = GetRepositoryInfo(n[1]).Id => m = n

\* The number of entries of the list for the repository id.
Occurrences(repos, id) == Cardinality({i \in 1..Len(repos) : repos[i].Id = id})

\* C1: on a dependency graph with a cycle (A depends on B, B depends on A),
\* with consistent roots and configurations (and no ignore list in play), the
\* walk of Load terminates without a crash and PrioritizedRepositories holds
\* each repository of the graph exactly once.
C1_CycleTolerated ==
    (LoadEnded /\ Last(history).stage \in {"walk", "finish"}
     /\ CycleFromRoot /\ ConsistentReferences
     /\ ignore_conflicted_repository_names = <<>>)
    => /\ pc = "done"
       /\ \A n \in ReachableNodes :
             Occurrences(result.PrioritizedRepositories, GetRepositoryInfo(n[1]).Id) = 1

---------------------------------------------------------------------------
(* The activation cache: Spec *)

\* The k-th operation before the last one.
Earlier(k) == history[Len(history) - k]

\* The root, the configuration and the cache file of a call of Load with the
\* arguments of the process.
CallRoot(forced) == Normalize(LoadRoot(target.root, forced))

CallConfiguration(forced) == LoadConfiguration(target.configuration, forced)

CallFilename(forced) ==
    Resolve(GetFilename(LoadRoot(target.root, forced),
                        LoadConfiguration(target.configuration, forced), target.fast))

\* The environment names no activated repository, or names the root and the
\* configuration of the arguments.
EnvironmentAgrees ==
    Truthy(getenv(DE_REPO_ROOT_NAME)) =>
        /\ Normalize(getenv(DE_REPO_ROOT_NAME)) = Normalize(target.root)
        /\ getenv(DE_REPO_CONFIGURATION_NAME) = target.configuration

\* Load(force=True) has returned, Save was called on its result, and
\* Load(force=False) has ended; nothing happened in between.
RoundTrip ==
    /\ Len(history) >= 3
    /\ LoadEnded
    /\ ~Last(history).force
    /\ Earlier(1).op = "Save"
    /\ Earlier(2).op = "Load"
    /\ Earlier(2).force
    /\ Earlier(2).err.kind = "none"

\* C2 (as stated): Load(force=True), then Save, then Load(force=False) with
\* the same arguments and an unchanged filesystem returns an ActivationData
\* equal in every field to the one the forced Load computed.
C2_RoundTrip == RoundTrip => (pc = "done" /\ result = Earlier(2).result)

\* C2 (amended): the round trip returns an equal ActivationData when the
\* environment names no activated repository or names the root and the
\* configuration of the arguments.
C2_RoundTripSameEnvironment ==
    (RoundTrip /\ EnvironmentAgrees) => (pc = "done" /\ result = Earlier(2).result)

C2_RoundTripDone ==
    /\ RoundTrip
    /\ EnvironmentAgrees
    /\ Truthy(getenv(DE_REPO_ROOT_NAME))
    /\ pc = "done"
    /\ result = Earlier(2).result
    /\ result.IsFastEnvironment
    /\ Len(result.PrioritizedRepositories) >= 3

\* C3: when force is false and the cache file at the derived path holds the
\* output of a prior Save for the same (root, configuration, fast), Load
\* returns the ActivationData deserialized from the file and runs no walk.
C3_CacheHit ==
    (/\ Len(history) >= 2
     /\ LoadEnded
     /\ ~Last(history).force
     /\ Earlier(1).op = "Save"
     /\ Earlier(1).result.Root = CallRoot(FALSE)
     /\ Earlier(1).result.Configuration = CallConfiguration(FALSE)
     /\ Earlier(1).result.IsFastEnvironment = target.fast
     /\ CallFilename(FALSE) \in DOMAIN files
     /\ files[CallFilename(FALSE)] = FileContent(JsonDump(Earlier(1).result), TRUE))
    => /\ pc = "done"
       /\ Last(history).stage = "cache"
       /\ result = Earlier(1).result

\* The roots of the direct dependencies of a configuration.
DirectDependencyRoots(root, config) ==
    LET dependencies == boot[root].Configurations[config].Dependencies
    IN  {dependencies[i].RepositoryRoot : i \in 1..Len(dependencies)}

\* Load has returned, Save was called, a file under a root was changed, and
\* Load(force=False) has ended for the root and configuration of the first.
MutatedAfterSave ==
    /\ Len(history) >= 4
    /\ LoadEnded
    /\ ~Last(history).force
    /\ Earlier(1).op = "Mutate"
    /\ Earlier(2).op = "Save"
    /\ Earlier(3).op = "Load"
    /\ Earlier(3).err.kind = "none"
    /\ Earlier(3).result.Root = CallRoot(FALSE)
    /\ Earlier(3).result.Configuration = CallConfiguration(FALSE)

MutatedRoot == Earlier(1).err.name

\* C4: after a successful Load and Save, when a file under the root of a
\* direct dependency is changed and the stored Fingerprint is not, the next
\* Load(force=False) fails with the stale-environment error whose lines list
\* the dependency's key as "Modified", and returns nothing.
C4_StaleAfterMutation ==
    (/\ MutatedAfterSave
     /\ MutatedRoot \in DirectDependencyRoots(Earlier(3).result.Root,
                                              Earlier(3).result.Configuration))
    => /\ pc = "failed"
       /\ result = NoResult
       /\ err.kind = "StaleEnvironment"
       /\ [key |-> MutatedRoot, status |-> "Modified"] \in SeqToSet(err.new_value)

C4_StaleRaised ==
    /\ MutatedAfterSave
    /\ MutatedRoot \in DirectDependencyRoots(Earlier(3).result.Root,
                                             Earlier(3).result.Configuration)
    /\ CallFilename(FALSE) \in DOMAIN files
    /\ err.kind = "StaleEnvironment"
    /\ [key |-> MutatedRoot, status |-> "Modified"] \in SeqToSet(err.new_value)

\* The fingerprint of the root's selected configuration: the mapping setup
\* stored, and the signatures now of the root and its direct dependencies.
StoredFingerprint == boot[repository_root].Configurations[configuration].Fingerprint

ExpectedFingerprint ==
    [r \in {repository_root} \cup DirectDependencyRoots(repository_root, configuration) |->
        sig[r]]

\* C5: a full resolution whose walk succeeded returns an ActivationData if
\* and only if the fingerprint over exactly the root and the direct
\* dependency roots of its selected configuration equals the stored one, and
\* fails with the stale-environment error otherwise, force or not.
C5_FingerprintDecides ==
    (LoadEnded /\ Last(history).stage = "finish")
    => /\ (pc = "done") <=> (StoredFingerprint = ExpectedFingerprint)
       /\ (pc = "done") => (result.Root = repository_root /\ err = NoError)
       /\ (pc = "failed") => (err.kind = "StaleEnvironment" /\ result = NoResult)

C5_ForcedStale ==
    /\ LoadEnded
    /\ Last(history).stage = "finish"
    /\ force
    /\ pc = "failed"
    /\ err.kind = "StaleEnvironment"
    /\ DirectDependencyRoots(repository_root, configuration) /= {}
    /\ DOMAIN StoredFingerprint = DOMAIN ExpectedFingerprint

\* The cache file of the (root, configuration, fast) of the running Load.
LoadFilename == Resolve(GetFilename(repository_root, configuration, is_fast_environment))

\* The file at the path derived from the (Root, Configuration,
\* IsFastEnvironment) of the object the last Load returned.
ResultFilename ==
    Resolve(GetFilename(result.Root, result.Configuration, result.IsFastEnvironment))

\* C6 (as stated): when a full resolution succeeds, by the time Load
\* returns the ActivationData has been serialized to the cache file at the
\* path derived from (root, configuration, fast).
C6_LoadPersists ==
    (LoadEnded /\ pc = "done" /\ Last(history).stage = "finish")
    => /\ LoadFilename \in DOMAIN files
       /\ files[LoadFilename] = FileContent(JsonDump(result), TRUE)

\* C6 (amended): Load writes no file; the ActivationData is serialized when
\* Save is called on it, to the file at the path derived from its (Root,
\* Configuration, IsFastEnvironment), overwriting it; that file is the one a
\* later Load(force=False) with the same arguments reads, when the
\* environment named the same repository during the Load that built it.
C6_SavePersists ==
    /\ (\A i \in 1..Len(history) : history[i].op /= "Save") => files = <<>>
    /\ (history /= <<>> /\ Last(history).op = "Save" /\ pc = "done")
       => /\ ResultFilename \in DOMAIN files
          /\ files[ResultFilename] = FileContent(JsonDump(result), TRUE)
          /\ (~force \/ EnvironmentAgrees) => ResultFilename = CallFilename(FALSE)

C6_Saved ==
    /\ Len(history) >= 2
    /\ Last(history).op = "Save"
    /\ Earlier(1).op = "Load"
    /\ Earlier(1).stage = "finish"
    /\ result.IsFastEnvironment
    /\ pc = "done"
    /\ target.root /= result.Root
    /\ files[ResultFilename] = FileContent(JsonDump(result), TRUE)
    /\ ResultFilename = CallFilename(FALSE)

---------------------------------------------------------------------------
(* References to one repository: SpecGraph *)

\* The first call of Walk for the repository id.
FirstVisit(id) ==
    visits[CHOOSE i \in 1..Len(visits) :
              /\ visits[i].repo.Id = id
              /\ \A j \in 1..(i - 1) : visits[j].repo.Id /= id]

\* The last call of Walk was for a repository walked before, with another
\* configuration than at its first visit, and the captured ignore list does
\* not hold its name.
ConflictingRevisit ==
    /\ Len(visits) >= 2
    /\ \E i \in 1..(Len(visits) - 1) : visits[i].repo.Id = Last(visits).repo.Id
    /\ Last(visits).repo.Configuration /= FirstVisit(Last(visits).repo.Id).repo.Configuration
    /\ Last(visits).repo.Name \notin SeqToSet(ignore_conflicted_repository_names)

\* Load raised the configuration-conflict error for the repository name.
ConfigurationConflict(name) ==
    pc = "failed" /\ err.kind = "ConfigurationMismatch" /\ err.name = name

\* The reference names the root of the first reference and a configuration
\* that passes the validation of lines 182-217.
ValidRevisit ==
    LET repo == Last(visits).repo
    IN  /\ repo.Root = FirstVisit(repo.Id).repo.Root
        /\ repo.Configuration \in DOMAIN boot[repo.Root].Configurations
        /\ boot[repo.Root].IsConfigurable <=> Truthy(repo.Configuration)

\* C7 (as stated): when a repository id is reached through two reference
\* paths with different configurations and its name is not in the captured
\* ignore list, resolution fails with the configuration-conflict error
\* naming the repository.
C7_ConfigurationConflict ==
    ConflictingRevisit => ConfigurationConflict(Last(visits).repo.Name)

\* C7 (amended): it does when the later reference names the root of the
\* first one and a configuration that passes validation (one the repository
\* declares, given if and only if the repository is configurable).
C7_ValidConfigurationConflict ==
    (ConflictingRevisit /\ ValidRevisit)
    => /\ ConfigurationConflict(Last(visits).repo.Name)
       /\ err.id = Last(visits).repo.Id
       /\ err.new_value = Last(visits).repo.Configuration
       /\ err.original_value = FirstVisit(Last(visits).repo.Id).repo.Configuration

C7_ConflictRaised ==
    /\ ConflictingRevisit
    /\ ValidRevisit
    /\ ConfigurationConflict("B")
    /\ Last(visits).depth = 3
    /\ FirstVisit("id-B").depth = 2

\* The names in the IgnoreConflictedRepositoryNames of the root's selected
\* configuration.
RootIgnoredNames ==
    IF Declared(RootNode)
    THEN SeqToSet(boot[repository_root].Configurations[configuration]
                      .IgnoreConflictedRepositoryNames)
    ELSE {}

\* The repository of every visit of the name is listed once, as referenced
\* at its first visit.
ListedAsFirstVisited(name) ==
    \A i \in 1..Len(visits) :
        visits[i].repo.Name = name
        => /\ Occurrences(result.PrioritizedRepositories, visits[i].repo.Id) = 1
           /\ \A k \in 1..Len(result.PrioritizedRepositories) :
                 result.PrioritizedRepositories[k].Id = visits[i].repo.Id
                 => result.PrioritizedRepositories[k] = FirstVisit(visits[i].repo.Id).repo

\* C8 (as stated): when B's name is in the root's
\* IgnoreConflictedRepositoryNames, no configuration-conflict error is raised
\* for B, and B is listed once in PrioritizedRepositories, with the
\* configuration of its first visit.
C8_IgnoredConflict ==
    \A name \in RootIgnoredNames :
        /\ ~ConfigurationConflict(name)
        /\ (LoadEnded /\ pc = "done") => ListedAsFirstVisited(name)

\* C8 (amended): it is so when the root declares a single unconfigured
\* (None) configuration, the case in which Walk captures the root's lists.
C8_IgnoredConflictUnconfiguredRoot ==
    (Declared(RootNode) /\ DOMAIN boot[repository_root].Configurations = {None})
    => \A name \in RootIgnoredNames :
          /\ ~ConfigurationConflict(name)
          /\ (LoadEnded /\ pc = "done") => ListedAsFirstVisited(name)

C8_FirstVisitedWins ==
    /\ LoadEnded
    /\ pc = "done"
    /\ repository_root = "A"
    /\ DOMAIN boot[repository_root].Configurations = {None}
    /\ "B" \in RootIgnoredNames
    /\ \E i \in 1..Len(visits) :
          /\ visits[i].repo.Name = "B"
          /\ visits[i].repo.Configuration = "c2"
          /\ FirstVisit(visits[i].repo.Id).repo.Configuration = "c1"
    /\ ListedAsFirstVisited("B")

---------------------------------------------------------------------------
(* Versions of tools and libraries: SpecVersions *)

RECURSIVE Flatten(_)
Flatten(ss) == IF ss = <<>> THEN <<>> ELSE Head(ss) \o Flatten(Tail(ss))

\* The i-th call of Walk passed the checks of lines 171-275 and went on to
\* merge the versions its configuration declares.
Validated(i) ==
    \/ i < Len(visits)
    \/ pc /= "failed"
    \/ LET v == visits[i]
           bootstrap_info == repositories[RepositoryIndex(repositories, v.repo.Id)]
       IN  /\ err.kind /= "AssertionError"
           /\ VisitCheck(v.referencing_repo, v.repo, bootstrap_info,
                         ignore_conflicted_repository_names).kind = "none"

DeclaredSpecs(v) == boot[v.repo.Root].Configurations[v.repo.Configuration].VersionSpecs

\* The tools declared by the configurations of the visited nodes, in the
\* order the walk meets them.
ToolDeclarations ==
    Flatten([i \in 1..Len(visits) |->
                IF Validated(i) THEN DeclaredSpecs(visits[i]).Tools ELSE <<>>])

\* The libraries of a language declared by the configurations of the
\* visited nodes, in the order the walk meets them.
LibraryDeclarations(language) ==
    Flatten([i \in 1..Len(visits) |->
                IF Validated(i)
                THEN Flatten([k \in 1..Len(DeclaredSpecs(visits[i]).Libraries) |->
                                 IF DeclaredSpecs(visits[i]).Libraries[k].Language = language
                                 THEN DeclaredSpecs(visits[i]).Libraries[k].Items
                                 ELSE <<>>])
                ELSE <<>>])

\* The first declaration of every name, in order.
RECURSIVE FirstDeclarations(_, _)
FirstDeclarations(declarations, seen) ==
    IF declarations = <<>> THEN <<>>
    ELSE IF Head(declarations).Name \in seen
    THEN FirstDeclarations(Tail(declarations), seen)
    ELSE <<Head(declarations)>>
         \o FirstDeclarations(Tail(declarations), seen \cup {Head(declarations).Name})

\* The names declared with two versions.
ConflictingNames(declarations) ==
    {declarations[i].Name : i \in {i \in 1..Len(declarations) :
        \E j \in 1..Len(declarations) :
            /\ declarations[j].Name = declarations[i].Name
            /\ declarations[j].Version /= declarations[i].Version}}

Languages == {"Python", "Cpp"}

\* C9: when the selected configurations of visited nodes declare a tool
\* with different versions, resolution fails with the version-mismatch error
\* for Tools whatever the ignore lists hold; when all declarations agree,
\* VersionSpecs.Tools holds exactly the first declaration of every tool.
C9_ToolsNeverIgnorable ==
    /\ ConflictingNames(ToolDeclarations) /= {}
       => /\ pc = "failed"
          /\ err.kind = "VersionMismatch"
          /\ err.id = "Tools"
          /\ err.name \in ConflictingNames(ToolDeclarations)
    /\ ConflictingNames(ToolDeclarations) = {}
       => /\ tool_version_info = FirstDeclarations(ToolDeclarations, {})
          /\ (LoadEnded /\ pc = "done")
             => result.VersionSpecs.Tools = FirstDeclarations(ToolDeclarations, {})

C9_IgnoredToolConflict ==
    /\ pc = "failed"
    /\ err.kind = "VersionMismatch"
    /\ err.id = "Tools"
    /\ err.name \in ConflictingNames(ToolDeclarations)
    /\ err.name \in SeqToSet(ignore_conflicted_library_names)
    /\ err.name \in SeqToSet(ignore_conflicted_repository_names)
    /\ Len(visits) >= 2

\* The library names of a language declared with two versions and not in
\* the captured IgnoreConflictedLibraryNames.
FatalLibraryNames(language) ==
    ConflictingNames(LibraryDeclarations(language)) \ SeqToSet(ignore_conflicted_library_names)

\* C10: for every (language, library name): declarations at one version
\* merge into one entry without error; declarations at differing versions
\* fail with the version-mismatch error unless the name is in the captured
\* IgnoreConflictedLibraryNames, and then no error is raised and the first
\* version met in walk order is the one kept in VersionSpecs.Libraries.
C10_LibrariesMerge ==
    /\ \A language \in Languages :
          FatalLibraryNames(language) /= {}
          => /\ pc = "failed"
             /\ err.kind = "VersionMismatch"
             /\ \/ err.id = "Tools"
                \/ \E l \in Languages : /\ err.id = l \o " Libraries"
                                        /\ err.name \in FatalLibraryNames(l)
    /\ (pc /= "failed" /\ \A language \in Languages : FatalLibraryNames(language) = {})
       => \A language \in Languages :
             /\ LibraryGet(library_version_info, language)
                    = FirstDeclarations(LibraryDeclarations(language), {})
             /\ (LoadEnded /\ pc = "done")
                => LibraryGet(result.VersionSpecs.Libraries, language)
                       = FirstDeclarations(LibraryDeclarations(language), {})
    /\ (pc = "failed" /\ err.kind = "VersionMismatch" /\ err.id /= "Tools")
       => \E l \in Languages : /\ err.id = l \o " Libraries"
                               /\ err.name \in FatalLibraryNames(l)

C10_IgnoredLibraryConflict ==
    /\ LoadEnded
    /\ pc = "done"
    /\ "X" \in ConflictingNames(LibraryDeclarations("Python"))
    /\ "X" \in SeqToSet(ignore_conflicted_library_names)
    /\ LibraryGet(result.VersionSpecs.Libraries, "Python")
           = FirstDeclarations(LibraryDeclarations("Python"), {})
    /\ Len(LibraryGet(result.VersionSpecs.Libraries, "Cpp")) = 1

\* No two entries of the list have one name.
NameUnique(infos) ==
    \A i, j \in 1..Len(infos) : infos[i].Name = infos[j].Name => i = j

\* A name some visited configuration declares twice.
DeclaredTwice(declared) ==
    \E i, j \in 1..Len(declared) : i /= j /\ declared[i].Name = declared[j].Name

\* C11: in every state of the walk and in the result, VersionSpecs.Tools has
\* at most one entry per tool name and VersionSpecs.Libraries[language] at
\* most one entry per library name, also when one configuration declares a
\* name twice and when a conflict is ignored.
C11_NamesUnique ==
    /\ NameUnique(tool_version_info)
    /\ \A language \in DOMAIN library_version_info :
          NameUnique(library_version_info[language])
    /\ NameUnique(result.VersionSpecs.Tools)
    /\ \A language \in DOMAIN result.VersionSpecs.Libraries :
          NameUnique(result.VersionSpecs.Libraries[language])

C11_DeclaredTwiceAndIgnored ==
    /\ LoadEnded
    /\ pc = "done"
    /\ \E i \in 1..Len(visits) : DeclaredTwice(DeclaredSpecs(visits[i]).Tools)
    /\ "Y" \in ConflictingNames(LibraryDeclarations("Python"))
    /\ "Y" \in SeqToSet(ignore_conflicted_library_names)
    /\ Len(LibraryGet(result.VersionSpecs.Libraries, "Python")) >= 1
    /\ Len(result.VersionSpecs.Tools) >= 2

---------------------------------------------------------------------------
(* Validation and location of a reference: SpecGraph *)

\* The descriptor the visit is checked against: the one loaded at the first
\* visit of the repository id.
VisitDescriptor(v) == boot[FirstVisit(v.repo.Id).repo.Root]

ValidationKinds ==
    {"ConfigurableWithoutConfiguration", "NotConfigurableWithConfiguration",
     "InvalidConfiguration"}

\* The validation error the visit's reference calls for, "none" when its
\* configuration is acceptable.
ValidationKind(v) ==
    LET info == VisitDescriptor(v)
    IN  IF info.IsConfigurable /\ ~Truthy(v.repo.Configuration)
        THEN "ConfigurableWithoutConfiguration"
        ELSE IF ~info.IsConfigurable /\ Truthy(v.repo.Configuration)
        THEN "NotConfigurableWithConfiguration"
        ELSE IF v.repo.Configuration \notin DOMAIN info.Configurations
        THEN "InvalidConfiguration"
        ELSE "none"

\* The last call of Walk was for a repository walked before, at another root
\* than at its first visit.
RelocatedRevisit ==
    /\ Len(visits) >= 2
    /\ Last(visits).repo.Root /= FirstVisit(Last(visits).repo.Id).repo.Root

\* Load raised the location-mismatch error.
LocationMismatch ==
    pc = "failed" /\ err.kind = "LocationMismatch"

\* C12 (as stated): when a repository id walked before is referenced again
\* with another Root, resolution fails with the location-mismatch error.
C12_LocationMismatch ==
    RelocatedRevisit => LocationMismatch

\* C12 (amended): it does when the later reference passes the validation of
\* its configuration; and no resolution succeeds with two references to one
\* id that name different roots.
C12_ValidLocationMismatch ==
    /\ (RelocatedRevisit /\ ValidationKind(Last(visits)) = "none")
       => /\ LocationMismatch
          /\ err.name = Last(visits).repo.Name
          /\ err.id = Last(visits).repo.Id
          /\ err.new_value = Last(visits).repo.Root
          /\ err.original_value = FirstVisit(Last(visits).repo.Id).repo.Root
    /\ (LoadEnded /\ pc = "done")
       => \A i, j \in 1..Len(visits) :
             visits[i].repo.Id = visits[j].repo.Id
             => visits[i].repo.Root = visits[j].repo.Root

C12_LocationMismatchRaised ==
    /\ RelocatedRevisit
    /\ LocationMismatch
    /\ err.new_value = "B2"
    /\ err.original_value = "B"
    /\ Last(visits).depth = 3

\* The visit is one of the root at which the ignore lists, captured before,
\* are not empty: the assertion of lines 176-177 stops it ahead of every check.
RootRevisitAsserted(v) ==
    /\ pc = "failed"
    /\ err = SimpleError("AssertionError", v.repo.Root)
    /\ v.repo.Root = repository_root
    /\ v.depth > 1

\* C13: a visit fails exactly when the repository is configurable and the
\* reference gives no configuration, or it is not configurable and the
\* reference gives one, or the configuration given is not one the repository
\* declares (the error raised for that lists the valid names); otherwise the
\* visit passes the validation of its configuration.  The failure is the
\* validation error of the case, unless the visit is a second one of the
\* root that the assertion on the captured ignore lists has stopped.
C13_Validation ==
    visits /= <<>>
    => LET kind == ValidationKind(Last(visits))
       IN  IF kind /= "none"
           THEN /\ pc = "failed"
                /\ \/ RootRevisitAsserted(Last(visits))
                   \/ /\ err.kind = kind
                      /\ err.name = Last(visits).repo.Root
                      /\ kind = "InvalidConfiguration"
                         => /\ err.new_value = Last(visits).repo.Configuration
                            /\ err.original_value
                                  = DOMAIN VisitDescriptor(Last(visits)).Configurations
           ELSE ~(pc = "failed" /\ err.kind \in ValidationKinds)

C13_InvalidConfigurationRaised ==
    /\ pc = "failed"
    /\ err.kind = "InvalidConfiguration"
    /\ err.new_value = "c3"
    /\ err.original_value = {"c1", "c2"}
    /\ Len(visits) >= 3

---------------------------------------------------------------------------
(* The prioritized list: SpecGraph *)

\* The priority_modifier accumulated for the id over the calls of Walk.
RECURSIVE Accumulated(_, _)
Accumulated(id, i) ==
    IF i = 0 THEN 0
    ELSE Accumulated(id, i - 1)
         + (IF visits[i].repo.Id = id THEN visits[i].priority_modifier ELSE 0)

\* The index in visits of the first call of Walk for the id.
FirstVisitIndex(id) ==
    CHOOSE i \in 1..Len(visits) :
        /\ visits[i].repo.Id = id
        /\ \A j \in 1..(i - 1) : visits[j].repo.Id /= id

\* Load returned the result of a full resolution.
Resolved == LoadEnded /\ pc = "done" /\ Last(history).stage /= "cache"

\* The position of the id in the returned list.
Position(id) ==
    CHOOSE k \in 1..Len(result.PrioritizedRepositories) :
        result.PrioritizedRepositories[k].Id = id

\* C14: on success PrioritizedRepositories is in descending order of the
\* accumulated priority_modifier: of two adjacent entries the earlier has a
\* modifier greater than or equal to the later's, and entries of equal
\* modifiers are in the order of their first visits.
C14_DescendingPriority ==
    Resolved
    => \A k \in 1..(Len(result.PrioritizedRepositories) - 1) :
          LET earlier == result.PrioritizedRepositories[k].Id
              later == result.PrioritizedRepositories[k + 1].Id
          IN  /\ Accumulated(earlier, Len(visits)) >= Accumulated(later, Len(visits))
              /\ Accumulated(earlier, Len(visits)) = Accumulated(later, Len(visits))
                 => FirstVisitIndex(earlier) < FirstVisitIndex(later)

C14_TieInVisitOrder ==
    /\ Resolved
    /\ Len(result.PrioritizedRepositories) >= 4
    /\ \E k \in 1..(Len(result.PrioritizedRepositories) - 1) :
          /\ Accumulated(result.PrioritizedRepositories[k].Id, Len(visits))
                = Accumulated(result.PrioritizedRepositories[k + 1].Id, Len(visits))
          /\ result.PrioritizedRepositories[k].Id = "id-C"
          /\ result.PrioritizedRepositories[k + 1].Id = "id-B"

\* The graph R -> {P, Q}, P -> {S}, Q -> {S} with R = A, P = B (c1), Q = C
\* and S = D.
Diamond ==
    /\ repository_root = "A"
    /\ Successors(RootNode) = {<<"B", "c1">>, <<"C", None>>}
    /\ Successors(<<"B", "c1">>) = {<<"D", None>>}
    /\ Successors(<<"C", None>>) = {<<"D", None>>}
    /\ Successors(<<"D", None>>) = {}

\* C15 (as stated): on that graph S comes before P and Q in
\* PrioritizedRepositories, and R comes before all of S, P and Q.
C15_RootFirst ==
    (Resolved /\ Diamond)
    => /\ Position("id-D") < Position("id-B")
       /\ Position("id-D") < Position("id-C")
       /\ Position("id-A") < Position("id-D")
       /\ Position("id-A") < Position("id-B")
       /\ Position("id-A") < Position("id-C")

\* The priority the walk has accumulated in the registry for the id.
Priority(id) == repositories[RepositoryIndex(repositories, id)].priority_modifier

\* C15 (amended): on that graph S comes before P and Q, and R comes after
\* all of S, P and Q: the root is the last entry of the list.  S is reached
\* by two paths of depth 3 and has priority 6, P and Q have 2, R has 1.
C15_RootLast ==
    (Resolved /\ Diamond)
    => /\ Len(result.PrioritizedRepositories) = 4
       /\ Position("id-D") < Position("id-B")
       /\ Position("id-D") < Position("id-C")
       /\ Position("id-A") = 4
       /\ Priority("id-D") = 6
       /\ Priority("id-B") = 2
       /\ Priority("id-C") = 2
       /\ Priority("id-A") = 1

C15_DiamondResolved ==
    /\ Resolved
    /\ Diamond
    /\ Len(visits) = 5
    /\ result.PrioritizedRepositories[1].Id = "id-D"

\* The ids of the references reachable from the root, each reference followed
\* under the configuration it names.
ClosureIds == {GetRepositoryInfo(n[1]).Id : n \in ReachableNodes}

\* C16: on success PrioritizedRepositories holds exactly one entry for every
\* repository id in the transitive closure of the root's dependencies (the
\* root included) and no other entry, however many references lead to a
\* repository.
C16_ExactlyTheClosure ==
    Resolved
    => /\ {result.PrioritizedRepositories[k].Id :
              k \in 1..Len(result.PrioritizedRepositories)} = ClosureIds
       /\ \A id \in ClosureIds : Occurrences(result.PrioritizedRepositories, id) = 1
       /\ Len(result.PrioritizedRepositories) = Cardinality(ClosureIds)
       /\ result.Id \in ClosureIds

C16_SeveralPaths ==
    /\ Resolved
    /\ Len(result.PrioritizedRepositories) >= 3
    /\ \E i, j \in 1..Len(visits) :
          /\ i < j
          /\ visits[i].repo.Id = visits[j].repo.Id
          /\ visits[i].referencing_repo /= visits[j].referencing_repo
    /\ Cardinality(ReachableNodes) > Cardinality(ClosureIds)

---------------------------------------------------------------------------
(* The arguments of Load and the cache file: SpecCache *)

\* A call of Load is running or has ended, and the caller has done nothing
\* since it began.
InLoad == pc \in {"walk", "finish"} \/ LoadEnded

\* The environment names an activated repository and the call is not forced.
Overridden == ~force /\ Truthy(getenv(DE_REPO_ROOT_NAME))

\* C17: when force is false and the activated-repository-root environment
\* variable is set, Load works on the root and the configuration of the
\* environment variables instead of its arguments, for the cache path and
\* for the resolution; when force is true or the variable is unset it works
\* on its arguments.  The fast flag is the argument's in every case.
C17_EnvironmentOverride ==
    InLoad
    => LET root == IF Overridden THEN env[DE_REPO_ROOT_NAME] ELSE target.root
           config == IF ~Overridden THEN target.configuration
                     ELSE IF DE_REPO_CONFIGURATION_NAME \in DOMAIN env
                     THEN env[DE_REPO_CONFIGURATION_NAME]
                     ELSE None
       IN  /\ filename = GetFilename(root, config, target.fast)
           /\ repository_root = Normalize(root)
           /\ configuration = config
           /\ is_fast_environment = target.fast
           /\ visits /= <<>>
              => /\ visits[1].repo.Root = Normalize(root)
                 /\ visits[1].repo.Configuration = config
           /\ (LoadEnded /\ pc = "done")
              => /\ result.Root = Normalize(root)
                 /\ result.Configuration = config
                 /\ result.IsFastEnvironment = target.fast

C17_OverriddenByEnvironment ==
    /\ LoadEnded
    /\ pc = "done"
    /\ Overridden
    /\ target = Target("A", "c1", TRUE)
    /\ result.Root = "C"
    /\ result.Configuration = None
    /\ result.IsFastEnvironment
    /\ filename = GetFilename("C", None, TRUE)
    /\ \E k \in 1..(Len(history) - 1) :
          /\ history[k].op = "Load"
          /\ history[k].force
          /\ history[k].result.Root = "A"

\* C18: the cache path is a function of (root, configuration or the default
\* name, fast flag), and the path of a fast activation is never the path of
\* a full one: the file a call of Load opens is not a file Save wrote for an
\* object whose fast flag differs from the call's.
C18_FastAndFullApart ==
    InLoad
    => \A k \in 1..Len(history) :
          (/\ history[k].op = "Save"
           /\ Resolve(SaveFilename(history[k].result)) = Resolve(filename))
          => history[k].result.IsFastEnvironment = is_fast_environment

\* The triple (Root, Configuration, IsFastEnvironment) of the object is the
\* one the last call of Load worked on.
ForThisCall(loaded) ==
    /\ loaded.Root = repository_root
    /\ loaded.Configuration = configuration
    /\ loaded.IsFastEnvironment = is_fast_environment

\* An unforced call of Load has ended that found a file at its cache path.
UnforcedOverFile ==
    /\ LoadEnded
    /\ ~Last(history).force
    /\ Resolve(filename) \in DOMAIN files

\* The exceptions the try block of lines 100-141 can raise.
CacheErrors == {"JSONDecodeError", "KeyError", "TypeError"}

\* C19: when force is false and the cache file exists but cannot be made
\* into an ActivationData (a text that is not JSON, a missing member, any
\* other failure while the object is built), Load does not fail on that
\* account: it resolves in full and returns what Load(force=True) returns
\* for the same root and configuration.
C19_DefectiveCacheIsAMiss ==
    UnforcedOverFile
    => /\ Last(history).stage \notin {"cache"}
       /\ ~(pc = "failed" /\ err.kind \in CacheErrors)
       /\ \A k \in 1..(Len(history) - 1) :
             (/\ history[k].op = "Load"
              /\ history[k].force
              /\ history[k].err.kind = "none"
              /\ ForThisCall(history[k].result))
             => /\ pc = "done"
                /\ result = history[k].result

C19_MissingMemberFallsThrough ==
    /\ UnforcedOverFile
    /\ files[Resolve(filename)].closed
    /\ ~HasKeys(JsonObject(files[Resolve(filename)].members), {"VersionSpecs"})
    /\ pc = "done"
    /\ Last(history).stage = "finish"
    /\ \E k \in 1..(Len(history) - 1) :
          /\ history[k].op = "Load"
          /\ history[k].force
          /\ result = history[k].result

\* The file at the cache path of the last call of Load is what a Save that
\* the crash at history[k] interrupted has left.
LeftByCrash(k) ==
    /\ history[k].op = "Crash"
    /\ Resolve(SaveFilename(history[k].result)) = Resolve(filename)
    /\ ~files[Resolve(filename)].closed
    /\ \E n \in 0..Len(JsonDump(history[k].result)) :
          files[Resolve(filename)].members = SubSeq(JsonDump(history[k].result), 1, n)

\* C20: when a crash has interrupted Save, a later unforced Load does not
\* make an ActivationData of the file left at the cache path: the call is a
\* cache miss, and the object it returns is the one a full resolution gives
\* (the one the interrupted Save was writing, when it was for the same call).
C20_InterruptedSaveIsAMiss ==
    \A k \in 1..Len(history) :
        (UnforcedOverFile /\ LeftByCrash(k))
        => /\ Last(history).stage = "finish"
           /\ pc = "done"
           /\ ForThisCall(result)
           /\ result.PrioritizedRepositories /= <<>>
           /\ ForThisCall(history[k].result) => result = history[k].result

C20_LoadAfterCrash ==
    /\ UnforcedOverFile
    /\ pc = "done"
    /\ \E k \in 1..Len(history) :
          /\ LeftByCrash(k)
          /\ ForThisCall(history[k].result)
          /\ Len(files[Resolve(filename)].members) = 3

---------------------------------------------------------------------------
(* Two writers of one cache file: SpecRace *)

\* Both processes have returned from Save, and they saved to one path.
BothSaved ==
    /\ \A p \in Processes : writers[p].pc = "closed"
    /\ Resolve(SaveFilename(writers["p1"].self)) = Resolve(SaveFilename(writers["p2"].self))

\* C21: when two processes save to one cache path without a lock, once both
\* have finished the file holds the complete serialization one of them
\* wrote, never a mixture of the two.
C21_LastWriterWins ==
    BothSaved
    => \E p \in Processes :
          files[Resolve(SaveFilename(writers[p].self))]
             = FileContent(JsonDump(writers[p].self), TRUE)

---------------------------------------------------------------------------
(* A failed call of Load: Spec *)

\* A call of Load is between its first step and its end.
Loading == pc \in {"walk", "finish"}

\* C22: when an error is raised during the walk or the validation of the
\* fingerprints, Load returns no ActivationData (nothing of the repositories
\* and versions gathered so far), does not start over, and leaves the cache
\* files as they were before the call.
C22_FailFast ==
    /\ [](pc = "failed" => result = NoResult /\ Last(history).result = NoResult)
    /\ [][(Loading \/ Loading') => files' = files]_vars
    /\ [][(pc = "failed" /\ pc' /= "failed") => budget'.Load = budget.Load - 1]_vars
    /\ [][Loading' => (visits' = visits \/ Len(visits') = Len(visits) + 1
                       \/ budget'.Load = budget.Load - 1)]_vars

C22_WalkFailedOverCache ==
    /\ LoadEnded
    /\ pc = "failed"
    /\ Last(history).stage = "walk"
    /\ repositories /= <<>>
    /\ files /= <<>>
    /\ \E k \in 1..Len(history) : history[k].op = "Load" /\ history[k].err.kind = "none"

---------------------------------------------------------------------------
(* Two forced resolutions: Spec *)

\* Nothing under a repository root has changed between the two operations.
SameFilesystem(j, k) ==
    \A i \in j..k : history[i].op /= "Mutate"

\* C23: on one filesystem state (the same descriptors and fingerprints) two
\* resolutions of one (root, configuration) with force=True give the same
\* PrioritizedRepositories, entry by entry in the same order, and the same
\* VersionSpecs; when one fails the other fails with the same error.
C23_Deterministic ==
    \A j, k \in 1..Len(history) :
        (/\ j < k
         /\ history[j].op = "Load" /\ history[j].force
         /\ history[k].op = "Load" /\ history[k].force
         /\ SameFilesystem(j, k))
        => /\ history[j].result.PrioritizedRepositories
                = history[k].result.PrioritizedRepositories
           /\ history[j].result.VersionSpecs = history[k].result.VersionSpecs
           /\ history[j].result = history[k].result
           /\ history[j].err = history[k].err

C23_ResolvedTwice ==
    /\ LoadEnded
    /\ pc = "done"
    /\ Last(history).force
    /\ Len(result.PrioritizedRepositories) >= 3
    /\ DOMAIN result.VersionSpecs.Libraries = {"Python", "Cpp"}
    /\ \E j \in 1..(Len(history) - 1) :
          /\ history[j].op = "Load"
          /\ history[j].force
          /\ history[j].result = result

---------------------------------------------------------------------------
(* The diagnostics of a mismatch: SpecGraph *)

\* C24: a location-mismatch or configuration-conflict error names both
\* reference paths by name, id and root: the repository that made the new
\* reference and the repository that made the first reference to the
\* repository in conflict (when a repository made it: the root is referenced
\* by none).
C24_NamesBothReferrers ==
    (/\ pc = "failed"
     /\ err.kind \in {"LocationMismatch", "ConfigurationMismatch"}
     /\ FirstVisit(Last(visits).repo.Id).referencing_repo /= NoRepo)
    => LET new == Last(visits).referencing_repo
           original == FirstVisit(Last(visits).repo.Id).referencing_repo
       IN  /\ err.new_by.Name = new.Name
           /\ err.new_by.Id = new.Id
           /\ err.new_by.Root = new.Root
           /\ err.original_by.Name = original.Name
           /\ err.original_by.Id = original.Id
           /\ err.original_by.Root = original.Root

---------------------------------------------------------------------------
(* The descents of the walk: SpecGraph *)

\* The calls of Walk made by the dependency loop of the repository id.
Descents(id) ==
    {i \in 1..Len(visits) :
        visits[i].referencing_repo /= NoRepo /\ visits[i].referencing_repo.Id = id}

\* C25: the walk recurses into the dependencies of a repository only at the
\* first visit of its id, so that the dependency list of a repository is
\* walked at most once in a resolution: no dependency is walked twice for
\* the same referencing repository (on a graph without a cycle).
C25_DependenciesWalkedOnce ==
    ~CycleFromRoot
    => \A id \in {visits[i].repo.Id : i \in 1..Len(visits)} :
        \A i, j \in Descents(id) :
            (visits[i].repo.Root = visits[j].repo.Root
             /\ visits[i].repo.Configuration = visits[j].repo.Configuration)
            => i = j

---------------------------------------------------------------------------
(* The contributions to a priority: SpecGraph *)

\* The reference edges of the graph under the root that lead to the id.
IncomingEdges(id) ==
    {e \in ReachableNodes \X ReachableNodes :
        e[2] \in Successors(e[1]) /\ GetRepositoryInfo(e[2][1]).Id = id}

\* The calls of Walk for the id: each adds its priority_modifier.
Contributions(id) == {i \in 1..Len(visits) : visits[i].repo.Id = id}

\* C26: on success (on a graph without a cycle) the priority accumulated for
\* a repository holds one contribution for each distinct reference edge that
\* leads to it, and the initial one for the root: a repository with a single
\* incoming edge is credited once, however many paths reach its referrer.
C26_OneContributionPerEdge ==
    (Resolved /\ ~CycleFromRoot)
    => \A id \in ClosureIds :
          /\ Cardinality(Contributions(id))
                = Cardinality(IncomingEdges(id)) + (IF id = result.Id THEN 1 ELSE 0)
          /\ Cardinality(IncomingEdges(id)) = 1
             => Priority(id) = visits[FirstVisitIndex(id)].priority_modifier

---------------------------------------------------------------------------
(* The ignore lists in force: SpecGraph *)

\* The root of the running Load declares the single configuration None.
RootUnconfigured ==
    repository_root \in Roots /\ DOMAIN boot[repository_root].Configurations = {None}

\* The walk has gone on after a call of Walk that named another
\* configuration than the first call for the repository.
SuppressedConfigurationConflict ==
    \E i \in 1..Len(visits) :
        /\ visits[i].repo.Configuration /= FirstVisit(visits[i].repo.Id).repo.Configuration
        /\ Validated(i)

\* The walk has gone on after it merged two versions of a library.
SuppressedLibraryConflict ==
    pc /= "failed"
    /\ \E language \in Languages : ConflictingNames(LibraryDeclarations(language)) /= {}

\* C27: in every state of a resolution the ignore lists in force are the
\* lists of the root, captured at its visit, when the root declares the
\* single configuration None, and are empty otherwise; with a configurable
\* root no configuration conflict and no library conflict is suppressed,
\* and the lists of the other repositories are never in force.
C27_ListsOfUnconfiguredRoot ==
    LET captured == RootUnconfigured /\ visits /= <<>>
    IN  /\ ignore_conflicted_repository_names
              = IF captured
                THEN boot[repository_root].Configurations[None].IgnoreConflictedRepositoryNames
                ELSE <<>>
        /\ ignore_conflicted_library_names
              = IF captured
                THEN boot[repository_root].Configurations[None].IgnoreConflictedLibraryNames
                ELSE <<>>
        /\ ~RootUnconfigured
           => /\ ~SuppressedConfigurationConflict
              /\ ~SuppressedLibraryConflict
        /\ (LoadEnded /\ pc = "done" /\ Last(history).stage /= "cache")
           => result.IgnoreConflictedLibraryNames = ignore_conflicted_library_names

\* A is configurable and lists the library X, C and D declare two versions
\* of X: the walk from A fails.
C27_ConfigurableRootSuppressesNothing ==
    /\ LoadEnded
    /\ pc = "failed"
    /\ err.kind = "VersionMismatch"
    /\ err.name = "X"
    /\ repository_root = "A"
    /\ ~RootUnconfigured
    /\ \E c \in DOMAIN boot["A"].Configurations :
          /\ "X" \in SeqToSet(boot["A"].Configurations[c].IgnoreConflictedLibraryNames)
          /\ "B" \in SeqToSet(boot["A"].Configurations[c].IgnoreConflictedRepositoryNames)
    /\ ignore_conflicted_library_names = <<>>

---------------------------------------------------------------------------
(* The configuration used after a suppressed conflict: SpecGraph *)

\* What the configuration of the first visit of the repository declares.
FirstVisitedSpecs(id) == DeclaredSpecs(FirstVisit(id))

\* C28: when a configuration conflict on a repository is suppressed, the
\* result uses the configuration of its first visit only: every tool of
\* VersionSpecs is declared by the first-visited configuration of a visited
\* repository, and every descent of the walk is made on behalf of the
\* first-visited configuration of the referencing repository.
C28_FirstConfigurationOnly ==
    (Resolved /\ SuppressedConfigurationConflict)
    => /\ \A k \in 1..Len(result.VersionSpecs.Tools) :
             \E i \in 1..Len(visits) :
                 result.VersionSpecs.Tools[k]
                     \in SeqToSet(FirstVisitedSpecs(visits[i].repo.Id).Tools)
       /\ \A j \in 1..Len(visits) :
             visits[j].referencing_repo /= NoRepo
             => visits[j].referencing_repo.Configuration
                    = FirstVisit(visits[j].referencing_repo.Id).repo.Configuration

---------------------------------------------------------------------------
(* The diff of the stale-environment error: Spec *)

\* The label of the key in the diff of the stored and the calculated
\* mapping.
Label(key, stored, calculated) ==
    IF key \notin DOMAIN stored THEN "Added"
    ELSE IF key \notin DOMAIN calculated THEN "Removed"
    ELSE IF stored[key] /= calculated[key] THEN "Modified"
    ELSE "Identical"

\* Load has just failed with the stale-environment error.
StaleRaised == LoadEnded /\ pc = "failed" /\ err.kind = "StaleEnvironment"

\* C29: the diff of a stale-environment error holds each key of the union
\* of the stored and the calculated fingerprint exactly once, labelled Added
\* (only calculated), Removed (only stored), Modified (both, other value) or
\* Identical (both, same value); some key is not Identical; the diff is
\* never empty: the assertion on the lines never fails.
C29_DiffOfTheUnion ==
    /\ StaleRaised
       => LET lines == err.new_value
              keys == DOMAIN StoredFingerprint \cup DOMAIN ExpectedFingerprint
          IN  /\ lines /= <<>>
              /\ {lines[i].key : i \in 1..Len(lines)} = keys
              /\ Len(lines) = Cardinality(keys)
              /\ \A i \in 1..Len(lines) :
                    lines[i].status = Label(lines[i].key, StoredFingerprint, ExpectedFingerprint)
              /\ \E i \in 1..Len(lines) : lines[i].status /= "Identical"
    /\ ~(pc = "failed" /\ err = SimpleError("AssertionError", "lines"))

C29_RemovedAmongIdentical ==
    /\ StaleRaised
    /\ Len(err.new_value) >= 3
    /\ \E i \in 1..Len(err.new_value) : err.new_value[i].status = "Removed"
    /\ \E i \in 1..Len(err.new_value) : err.new_value[i].status = "Identical"
    /\ \A i \in 1..Len(err.new_value) : err.new_value[i].status \in {"Removed", "Identical"}

---------------------------------------------------------------------------
(* The root in the prioritized list: SpecGraph *)

\* The walk of the running Load has returned.
Walked == pc = "finish" \/ Resolved

\* C30: when the walk succeeds on a graph without a cycle, the root has the
\* accumulated priority_modifier 1 and every other repository at least 2, so
\* that the root is the last entry of the sorted list, and the descriptor
\* taken from the last entry, which gives the result its IsMixinRepo and its
\* fingerprint, is the root's.
C30_RootHasPriorityOne ==
    (Walked /\ ~CycleFromRoot)
    => LET priority_values == PriorityValues(repositories)
           root_id == GetRepositoryInfo(repository_root).Id
       IN  /\ Priority(root_id) = 1
           /\ \A i \in 1..Len(repositories) :
                 repositories[i].Id /= root_id => repositories[i].priority_modifier >= 2
           /\ priority_values[Len(priority_values)].id = root_id
           /\ repositories[RepositoryIndex(repositories, root_id)].Repo.Root = repository_root
           /\ Resolved
              => /\ Last(result.PrioritizedRepositories).Id = root_id
                 /\ Last(result.PrioritizedRepositories).Root = repository_root
                 /\ result.IsMixinRepo = boot[repository_root].IsMixinRepo
                 /\ StoredFingerprint = ExpectedFingerprint

C30_RootOfThreeIsLast ==
    /\ Resolved
    /\ ~CycleFromRoot
    /\ repository_root = "B"
    /\ Len(result.PrioritizedRepositories) >= 3
    /\ \E k \in 1..Len(result.PrioritizedRepositories) :
          /\ result.PrioritizedRepositories[k].Id = "id-A"
          /\ boot["A"].IsMixinRepo
    /\ ~result.IsMixinRepo
    /\ Last(result.PrioritizedRepositories).Id = "id-B"

=============================================================================
